---------------------------- MODULE Spec2Model ----------------------------
(***************************************************************************)
(* A model of the spatial-rs MBR map (tree/mbr): the R*-tree and the       *)
(* R-tree (linear / quadratic seed split) behind MbrMap, with query-driven *)
(* iteration and removal.                                                  *)
(*                                                                         *)
(* Coordinates of the floating-point type P are modelled by integers; all  *)
(* scores the code compares (area, margin, overlap, distance) are computed *)
(* exactly.  The Euclidean distance, only ever used as a sort key, is      *)
(* represented by four times its square, which orders the same way.        *)
(***************************************************************************)
EXTENDS Integers, Sequences, FiniteSets, Bags, TLC

(***************************************************************************)
(* Bounds of the model                                                     *)
(***************************************************************************)
\* largest coordinate of an inserted geometry
MaxCoord == 2
\* largest number of leaves the map holds in the free-input configurations
MaxLeaves == 5
\* largest number of leaves the map holds in the scripted configurations
MaxDeepLeaves == 19
\* largest node size a strategy is constructed with
MaxNodeSize == 16

(***************************************************************************)
(* Program constants                                                       *)
(***************************************************************************)
\* the compile-time dimension of the instantiated map
DIM == 2
\* P::max_value(); -FMax is P::min_value()
FMax == 1000
D_CHOOSE_SUBTREE_P == 32

Axes == 1..DIM

(***************************************************************************)
(* Generic helpers for the standard-library calls the code makes           *)
(***************************************************************************)
fmin(a, b) == IF a < b THEN a ELSE b
fmax(a, b) == IF a > b THEN a ELSE b

\* lexicographic "<" on tuples of numbers of equal length (tuple / NotNan Ord)
LexLess(a, b) ==
    \E i \in 1..Len(a) : a[i] < b[i] /\ \A j \in 1..(i - 1) : a[j] = b[j]

\* the sequence f itself, as an explicit tuple (a function expression is
\* otherwise evaluated again at every use)
Vec(f) == f \o <<>>

\* a "let" binding: F applied to the value v, which is evaluated once
With(v, F(_)) == CHOOSE r \in {F(x) : x \in {v}} : TRUE

\* slice::sort_by_key: a stable sort; keys[i] is the key (a tuple) of s[i]
SortByKey(s, keys) ==
    LET n == Len(s)
        ks == Vec(keys)
        rank(i) == Cardinality({j \in 1..n : LexLess(ks[j], ks[i])
                                   \/ (ks[j] = ks[i] /\ j < i)}) + 1
    IN  Vec([r \in 1..n |-> s[CHOOSE i \in 1..n : rank(i) = r]])

\* Iterator::min_by_key: index of the first minimal element
MinByKey(keys) ==
    LET ks == Vec(keys)
    IN  CHOOSE i \in 1..Len(ks) :
            /\ \A j \in 1..Len(ks) : ~LexLess(ks[j], ks[i])
            /\ \A j \in 1..(i - 1) : LexLess(ks[i], ks[j])

\* Vec::remove(i) with 1-based i
RemoveAt(s, i) == Vec([j \in 1..(Len(s) - 1) |-> IF j < i THEN s[j] ELSE s[j + 1]])

\* v.swap(i, j) with 1-based indices
Swap(s, i, j) ==
    Vec([k \in 1..Len(s) |-> IF k = i THEN s[j] ELSE IF k = j THEN s[i] ELSE s[k]])

RECURSIVE SeqToBag(_)
SeqToBag(s) == IF s = <<>> THEN EmptyBag ELSE SetToBag({Head(s)}) (+) SeqToBag(Tail(s))

(***************************************************************************)
(* Geometry: Point, LineSegment, Rect (geometry.rs).  A geometry is a      *)
(* record [kind, x, y]: a Point has x = y = its coords, a LineSegment has  *)
(* its endpoints x and y, a Rect has edges[d] = (x[d], y[d]).              *)
(***************************************************************************)
Point(c) == [kind |-> "Point", x |-> c, y |-> c]
LineSegment(a, b) == [kind |-> "LineSegment", x |-> a, y |-> b]
Rect(lo, hi) == [kind |-> "Rect", x |-> Vec(lo), y |-> Vec(hi)]

\* Rect::from_corners
from_corners(a, b) ==
    Rect([d \in Axes |-> fmin(fmin(FMax, a[d]), b[d])],
         [d \in Axes |-> fmax(fmax(-FMax, a[d]), b[d])])

\* P::infinity(); -Inf is P::neg_infinity()
Inf == FMax + 1

\* Float::is_finite
is_finite(x) == -Inf < x /\ x < Inf

\* Rect::new on the edges (x, y) of the axes: "*x = x.min(*y); *y = x.max(*y)"
\* with the x just assigned; trap is the assertion that failed, if any
Rect_new(edges) ==
    [rect |-> Rect([d \in Axes |-> fmin(edges[d][1], edges[d][2])],
                   [d \in Axes |-> fmax(fmin(edges[d][1], edges[d][2]), edges[d][2])]),
     trap |-> IF \A d \in Axes : is_finite(edges[d][1]) /\ is_finite(edges[d][2])
              THEN "" ELSE "should be finite"]

max_inverted == Rect([d \in Axes |-> FMax], [d \in Axes |-> -FMax])
\* Rect::max()
max_universe == Rect([d \in Axes |-> -FMax], [d \in Axes |-> FMax])

(***************************************************************************)
(* MbrLeafGeometry (leafgeometry.rs), dispatched on the kind as Shapes does*)
(***************************************************************************)
RECURSIVE Product(_, _)
Product(f, n) == IF n = 0 THEN 1 ELSE f[n] * Product(f, n - 1)

RECURSIVE Sum(_, _)
Sum(f, n) == IF n = 0 THEN 0 ELSE f[n] + Sum(f, n - 1)

area(g) ==
    IF g.kind = "Rect" THEN Product([d \in Axes |-> g.y[d] - g.x[d]], DIM) ELSE 0

min_for_axis(g, d) ==
    IF g.kind = "LineSegment" THEN fmin(g.x[d], g.y[d]) ELSE g.x[d]

max_for_axis(g, d) ==
    IF g.kind = "LineSegment" THEN fmax(g.x[d], g.y[d]) ELSE g.y[d]

\* the mbr grown to cover g (a LineSegment expands by x, then by y)
\* expand_mbr_to_fit growing the MBR only at its lower corner
expand_mbr_to_fit_lower(g, mbr) ==
    IF g.kind = "LineSegment"
    THEN Rect([d \in Axes |-> fmin(fmin(mbr.x[d], g.x[d]), g.y[d])],
              [d \in Axes |-> fmax(mbr.y[d], fmin(g.x[d], g.y[d]))])
    ELSE Rect([d \in Axes |-> fmin(mbr.x[d], g.x[d])],
              [d \in Axes |-> fmax(mbr.y[d], g.x[d])])

expand_mbr_to_fit(g, mbr) ==
    IF g.kind = "LineSegment"
    THEN Rect([d \in Axes |-> fmin(fmin(mbr.x[d], g.x[d]), g.y[d])],
              [d \in Axes |-> fmax(fmax(mbr.y[d], g.x[d]), g.y[d])])
    ELSE Rect([d \in Axes |-> fmin(mbr.x[d], g.x[d])],
              [d \in Axes |-> fmax(mbr.y[d], g.y[d])])

\* four times the square of distance_from_mbr_center
distance_from_mbr_center(g, mbr) ==
    Sum([d \in Axes |->
            ((mbr.x[d] + mbr.y[d]) - (g.x[d] + g.y[d]))
          * ((mbr.x[d] + mbr.y[d]) - (g.x[d] + g.y[d]))], DIM)

PointOverlappedBy(c, mbr) == \A d \in Axes : ~(c[d] < mbr.x[d] \/ mbr.y[d] < c[d])

RectOverlappedByStrict(g, mbr) ==
    \A d \in Axes : mbr.x[d] < g.y[d] /\ g.x[d] < mbr.y[d]

overlapped_by_mbr(g, mbr) ==
    CASE g.kind = "Point" -> PointOverlappedBy(g.x, mbr)
      [] g.kind = "LineSegment" -> PointOverlappedBy(g.x, mbr) \/ PointOverlappedBy(g.y, mbr)
      [] OTHER -> RectOverlappedByStrict(g, mbr)

contained_by_mbr(g, mbr) ==
    CASE g.kind = "Point" -> PointOverlappedBy(g.x, mbr)
      [] g.kind = "LineSegment" -> PointOverlappedBy(g.x, mbr) /\ PointOverlappedBy(g.y, mbr)
      [] OTHER -> \A d \in Axes : ~(g.x[d] < mbr.x[d] \/ mbr.y[d] < g.y[d])

area_overlapped_with_mbr(g, mbr) ==
    IF g.kind = "Rect"
    THEN Product([d \in Axes |->
                    fmax(fmin(mbr.y[d], g.y[d]) - fmax(mbr.x[d], g.x[d]), 0)], DIM)
    ELSE 0

\* Margin for Rect: the sum of the edge lengths
margin(r) == Sum([d \in Axes |-> r.y[d] - r.x[d]], DIM)

(***************************************************************************)
(* State                                                                   *)
(***************************************************************************)
VARIABLES
    cfg,     \* the strategies the map was built with (constant after Init)
    root,    \* MbrMap.root
    len,     \* MbrMap.len
    last,    \* the last completed public operation, its inputs and its results
    filled   \* the leaves inserted since MbrMap::new or clear, while nothing
             \* else has changed the map

vars == <<cfg, root, len, last, filled>>

(***************************************************************************)
(* Leaves and nodes (leaf.rs, node.rs)                                     *)
(***************************************************************************)
MbrLeaf(g, i) == [tag |-> "Leaf", geometry |-> g, item |-> i]

Leaves(mbr, children) == [tag |-> "Leaves", mbr |-> mbr, children |-> children]
Level(mbr, children) == [tag |-> "Level", mbr |-> mbr, children |-> children]

\* RTreeNode::new_leaves / new_no_alloc
new_leaves == Leaves(max_inverted, <<>>)

has_leaves(n) == n.tag = "Leaves"
has_levels(n) == ~has_leaves(n)
is_empty(n) == n.children = <<>>

\* a leaf or a node seen through MbrLeafGeometry: a leaf delegates to its
\* geometry, a node to its mbr
GeomOf(c) == IF c.tag = "Leaf" THEN c.geometry ELSE c.mbr

\* "*mbr = Rect::max_inverted(); for child in children { child.expand_mbr_to_fit(mbr) }"
RECURSIVE ExpandAll(_, _)
ExpandAll(children, mbr) ==
    IF children = <<>> THEN mbr
    ELSE ExpandAll(Tail(children), expand_mbr_to_fit(GeomOf(Head(children)), mbr))

TightMbr(children) == ExpandAll(children, max_inverted)

\* results of the recursive insert: the node as mutated in place, the
\* InsertResult variant with its payload, and the failed assertion or
\* unreachable!() that aborted the call ("" when none)
IResult(n, tag, payload) == [node |-> n, tag |-> tag, payload |-> payload, trap |-> ""]
ITrap(n, what) == [node |-> n, tag |-> "Ok", payload |-> <<>>, trap |-> what]

(***************************************************************************)
(* R*-tree insertion (index/rstar.rs)                                      *)
(***************************************************************************)
rs_area_cost(mbr, leaf) ==
    LET expanded == expand_mbr_to_fit(GeomOf(leaf), mbr)
        mbr_area == area(mbr)
    IN  <<area(expanded) - mbr_area, mbr_area>>

rs_overlap_cost(mbr, leaf) ==
    area(GeomOf(leaf)) - area_overlapped_with_mbr(GeomOf(leaf), mbr)

rs_overlap_area_cost(mbr, leaf) ==
    <<rs_overlap_cost(mbr, leaf)>> \o rs_area_cost(mbr, leaf)

\* the level as choose_subnode leaves it (it may sort it) and the index of
\* the chosen child; the caller has checked that the level is not empty
rs_choose_subnode(level, leaf) ==
    IF has_leaves(level[1])
    THEN IF Len(level) > cfg.choose_subtree_p
         THEN With(SortByKey(level,
                       [i \in 1..Len(level) |-> rs_area_cost(level[i].mbr, leaf)]),
                   LAMBDA sorted :
                       [level |-> sorted,
                        idx |-> MinByKey([i \in 1..cfg.choose_subtree_p |->
                                             <<rs_overlap_cost(sorted[i].mbr, leaf)>>])])
         ELSE [level |-> level,
               idx |-> MinByKey([i \in 1..Len(level) |->
                                    rs_overlap_area_cost(level[i].mbr, leaf)])]
    ELSE [level |-> level,
          idx |-> MinByKey([i \in 1..Len(level) |-> rs_area_cost(level[i].mbr, leaf)])]

\* children.sort_by_key on the distance from the center of the mbr
SortByDistance(mbr, children) ==
    SortByKey(children,
        [i \in 1..Len(children) |->
            <<distance_from_mbr_center(GeomOf(children[i]), mbr)>>])

\* split_for_reinsert with the split one element late: the leaf at reinsert_m
\* is neither kept nor handed back
split_for_reinsert_late(mbr, children) ==
    With(SortByDistance(mbr, children), LAMBDA sorted :
        [mbr |-> TightMbr(SubSeq(sorted, 1, cfg.reinsert_m)),
         children |-> SubSeq(sorted, 1, cfg.reinsert_m),
         split |-> SubSeq(sorted, cfg.reinsert_m + 2, Len(sorted))])

\* the node's mbr and children after the call, and the leaves split off
split_for_reinsert(mbr, children) ==
    With(SortByDistance(mbr, children), LAMBDA sorted :
        [mbr |-> TightMbr(SubSeq(sorted, 1, cfg.reinsert_m)),
         children |-> SubSeq(sorted, 1, cfg.reinsert_m),
         split |-> SubSeq(sorted, cfg.reinsert_m + 1, Len(sorted))])

\* children.sort_by_key on min_for_axis (edge 0) or max_for_axis (edge 1)
SortByEdge(children, axis, edge) ==
    SortByKey(children,
        [i \in 1..Len(children) |->
            <<IF edge = 0 THEN min_for_axis(GeomOf(children[i]), axis)
                          ELSE max_for_axis(GeomOf(children[i]), axis)>>])

\* one iteration of the "for k in min_k..max_k" loop on the sorted children;
\* cost is (overlap, area)
SplitCandidate(sorted, edge, k, acc) ==
    With(TightMbr(SubSeq(sorted, 1, k)), LAMBDA r1 :
    With(TightMbr(SubSeq(sorted, k + 1, Len(sorted))), LAMBDA r2 :
    With(<<area_overlapped_with_mbr(r1, r2), area(r1) + area(r2)>>, LAMBDA cost :
    With(LexLess(cost, <<acc.d_overlap, acc.d_area>>), LAMBDA better :
        [margin |-> acc.margin + margin(r1) + margin(r2),
         d_overlap |-> IF better THEN cost[1] ELSE acc.d_overlap,
         d_area |-> IF better THEN cost[2] ELSE acc.d_area,
         d_edge |-> IF better THEN edge ELSE acc.d_edge,
         d_index |-> IF better THEN k ELSE acc.d_index]))))

RECURSIVE SplitCandidates(_, _, _, _)
SplitCandidates(sorted, edge, k, acc) ==
    IF k >= cfg.max_k THEN acc
    ELSE SplitCandidates(sorted, edge, k + 1, SplitCandidate(sorted, edge, k, acc))

\* the children as the call leaves them (sorted by the axis' upper edge), the
\* accumulated margin and the best (edge, index) of the axis
best_split_position_for_axis(axis, children) ==
    With(SortByEdge(children, axis, 0), LAMBDA c0 :
    With(SplitCandidates(c0, 0, cfg.min_k,
             [margin |-> 0, d_overlap |-> FMax, d_area |-> FMax,
              d_edge |-> 0, d_index |-> 0]), LAMBDA a0 :
    With(SortByEdge(c0, axis, 1), LAMBDA c1 :
    With(SplitCandidates(c1, 1, cfg.min_k, a0), LAMBDA a1 :
        [children |-> c1, margin |-> a1.margin, axis |-> axis,
         edge |-> a1.d_edge, index |-> a1.d_index]))))

\* the results of best_split_position_for_axis for the axes 1..n, each call
\* working on the children as the previous call left them
RECURSIVE AxisResults(_, _)
AxisResults(n, children) ==
    IF n = 0 THEN <<>>
    ELSE With(AxisResults(n - 1, children), LAMBDA prev :
             Append(prev, best_split_position_for_axis(n,
                              IF n = 1 THEN children ELSE prev[n - 1].children)))

\* the node's mbr and children after the call, the mbr and children of the
\* new sibling, and the (s_axis, s_edge, s_index) the split was made at
rs_split(mbr, children) ==
    With(AxisResults(DIM, children), LAMBDA res :
    With(res[MinByKey([a \in 1..DIM |-> <<res[a].margin>>])], LAMBDA s :
    With(SortByEdge(res[DIM].children, s.axis, s.edge), LAMBDA sorted :
        [mbr |-> TightMbr(SubSeq(sorted, 1, s.index)),
         children |-> SubSeq(sorted, 1, s.index),
         split_mbr |-> TightMbr(SubSeq(sorted, s.index + 1, Len(sorted))),
         split_children |-> SubSeq(sorted, s.index + 1, Len(sorted)),
         s_axis |-> s.axis, s_edge |-> s.edge, s_index |-> s.index])))

\* the node that split_for_reinsert was called on, before and after the call
Overflowed(before, after) == [before |-> before, after |-> after]

\* handle_overflow that splits an overflowing leaf-bearing node where the
\* code reinserts
rs_handle_overflow_split(level, at_root, force_split) ==
    IF ~at_root /\ ~force_split /\ has_levels(level)
    THEN ITrap(level, "unreachable: interior node overflow without split")
    ELSE With(rs_split(level.mbr, level.children), LAMBDA s :
             IResult([level EXCEPT !.mbr = s.mbr, !.children = s.children], "Split",
                     [tag |-> level.tag, mbr |-> s.split_mbr,
                      children |-> s.split_children]))

rs_handle_overflow(level, at_root, force_split) ==
    IF ~at_root /\ ~force_split
    THEN IF has_leaves(level)
         THEN With(split_for_reinsert(level.mbr, level.children), LAMBDA s :
                  IResult(Leaves(s.mbr, s.children), "Reinsert", s.split)
                      @@ [overflowed |-> Overflowed(level, Leaves(s.mbr, s.children))])
         ELSE ITrap(level, "unreachable: interior node overflow without split")
    ELSE With(rs_split(level.mbr, level.children), LAMBDA s :
             IResult([level EXCEPT !.mbr = s.mbr, !.children = s.children], "Split",
                     [tag |-> level.tag, mbr |-> s.split_mbr,
                      children |-> s.split_children]))

\* the "match *level" of insert_into_level has pushed an entry onto the
\* children of n and falls through to the overflow test
Pushed(n) == IResult(n, "Pushed", <<>>)

RECURSIVE rs_insert_into_level(_, _, _, _)
rs_insert_into_level(level, leaf, at_root, force_split) ==
    With(expand_mbr_to_fit(leaf.geometry, level.mbr), LAMBDA expanded :
    With(IF has_leaves(level) THEN Pushed(Leaves(expanded, Append(level.children, leaf)))
         ELSE IF level.children = <<>> THEN ITrap(level, "Level should not be empty!")
         ELSE With(rs_choose_subnode(level.children, leaf), LAMBDA cs :
              With(rs_insert_into_level(cs.level[cs.idx], leaf, FALSE, force_split),
                   LAMBDA r :
              With([cs.level EXCEPT ![cs.idx] = r.node], LAMBDA children :
                  IF r.trap # "" THEN ITrap(Level(expanded, children), r.trap)
                  ELSE IF r.tag = "Split"
                  THEN Pushed(Level(expanded, Append(children, r.payload)))
                  ELSE IF r.tag = "Reinsert"
                  THEN IResult(Level(TightMbr(children), children), "Reinsert", r.payload)
                           @@ [overflowed |-> r.overflowed]
                  ELSE IResult(Level(expanded, children), "Ok", <<>>)))),
         LAMBDA m :
             IF m.tag # "Pushed" THEN m
             ELSE IF Len(m.node.children) > cfg.max
             THEN rs_handle_overflow(m.node, at_root, force_split)
             ELSE IResult(m.node, "Ok", <<>>)))

\* handle_split_root that adopts the children of an interior sibling instead
\* of the sibling, one level too high
handle_split_root_adopt(rt, split) ==
    Level(expand_mbr_to_fit(GeomOf(split), rt.mbr),
          IF has_leaves(split) THEN <<rt, split>> ELSE <<rt>> \o split.children)

handle_split_root(rt, split) ==
    Level(expand_mbr_to_fit(GeomOf(split), rt.mbr), <<rt, split>>)

\* the root after insert_into_root, with the trap that aborted it, if any;
\* reinserted is the reinsert set of the call (RI4) and resplit tells that
\* the root was split while the set was reinserted
RootResult(rt, trap) ==
    [root |-> rt, trap |-> trap, reinserted |-> <<>>, resplit |-> FALSE,
     overflowed |-> Overflowed(new_leaves, new_leaves)]

\* the reinsertion pass without force_split
RECURSIVE rs_reinsert_unforced(_, _)
rs_reinsert_unforced(rt, leaves) ==
    IF leaves = <<>> THEN RootResult(rt, "")
    ELSE With(rs_insert_into_level(rt, Head(leaves), TRUE, FALSE), LAMBDA r :
             IF r.trap # "" THEN RootResult(r.node, r.trap)
             ELSE IF r.tag = "Split"
             THEN [rs_reinsert_unforced(handle_split_root(r.node, r.payload), Tail(leaves))
                      EXCEPT !.resplit = TRUE]
             ELSE IF r.tag = "Reinsert"
             THEN RootResult(r.node, "unreachable: reinsert during reinsertion")
             ELSE rs_reinsert_unforced(r.node, Tail(leaves)))

\* "for leaf in leaves": the reinsertion pass of insert_into_root
RECURSIVE rs_reinsert(_, _)
rs_reinsert(rt, leaves) ==
    IF leaves = <<>> THEN RootResult(rt, "")
    ELSE With(rs_insert_into_level(rt, Head(leaves), TRUE, TRUE), LAMBDA r :
             IF r.trap # "" THEN RootResult(r.node, r.trap)
             ELSE IF r.tag = "Split"
             THEN [rs_reinsert(handle_split_root(r.node, r.payload), Tail(leaves))
                      EXCEPT !.resplit = TRUE]
             ELSE IF r.tag = "Reinsert"
             THEN RootResult(r.node, "unreachable: reinsert during reinsertion")
             ELSE rs_reinsert(r.node, Tail(leaves)))

rs_insert_into_root(rt, leaf) ==
    With(rs_insert_into_level(rt, leaf, TRUE, FALSE), LAMBDA r :
        IF r.trap # "" THEN RootResult(r.node, r.trap)
        ELSE IF r.tag = "Split" THEN RootResult(handle_split_root(r.node, r.payload), "")
        ELSE IF r.tag = "Reinsert"
        THEN [rs_reinsert(r.node, r.payload) EXCEPT !.reinserted = r.payload,
                                                    !.overflowed = r.overflowed]
        ELSE RootResult(r.node, ""))

(***************************************************************************)
(* R-tree insertion with seed split (index/r.rs).  Indices are 1-based     *)
(* here, 0-based in the code.                                              *)
(***************************************************************************)
\* Quadratic::pick_seed: the last pair (in tuple_combinations order) of
\* maximal waste; the caller has checked that there are two children
quadratic_pick_seed(mbr, children) ==
    LET n == Len(children)
        Pairs == {p \in (1..n) \X (1..n) : p[1] < p[2]}
        waste(p) ==
            area(expand_mbr_to_fit(GeomOf(children[p[2]]),
                    expand_mbr_to_fit(GeomOf(children[p[1]]), max_inverted)))
            - area(GeomOf(children[p[1]])) - area(GeomOf(children[p[2]]))
    IN  CHOOSE p \in Pairs :
            \A q \in Pairs : waste(q) < waste(p)
                             \/ (waste(q) = waste(p) /\ ~LexLess(p, q))

\* LPS1 for child i: least_upper and greatest_lower map an axis to <<value, index>>
LinearVisit(child, i, acc) ==
    [least_upper |->
        Vec([d \in Axes |-> IF min_for_axis(GeomOf(child), d) > acc.least_upper[d][1]
                            THEN <<min_for_axis(GeomOf(child), d), i>>
                            ELSE acc.least_upper[d]]),
     greatest_lower |->
        Vec([d \in Axes |-> IF max_for_axis(GeomOf(child), d) < acc.greatest_lower[d][1]
                            THEN <<min_for_axis(GeomOf(child), d), i>>
                            ELSE acc.greatest_lower[d]])]

RECURSIVE LinearScan(_, _, _)
LinearScan(children, i, acc) ==
    IF i > Len(children) THEN acc
    ELSE LinearScan(children, i + 1, LinearVisit(children[i], i, acc))

\* Linear::pick_seed; the index a bound keeps when no child sets it is the
\* code's 0, the first child
linear_pick_seed(mbr, children) ==
    With([d \in Axes |-> IF mbr.y[d] - mbr.x[d] <= 0 THEN 1 ELSE mbr.y[d] - mbr.x[d]],
         LAMBDA widths :
    With(LinearScan(children, 1,
             [least_upper |-> [d \in Axes |-> <<-FMax, 1>>],
              greatest_lower |-> [d \in Axes |-> <<FMax, 1>>]]), LAMBDA acc :
    \* num[d] / widths[d] is the separation of axis d, the widths being positive
    With([d \in Axes |-> acc.greatest_lower[d][1] - acc.least_upper[d][1]], LAMBDA num :
    With(CHOOSE a \in Axes :
             /\ \A b \in Axes : ~(num[a] * widths[b] < num[b] * widths[a])
             /\ \A b \in (a + 1)..DIM : num[b] * widths[a] < num[a] * widths[b],
         LAMBDA axis :
             IF acc.least_upper[axis][2] > acc.greatest_lower[axis][2]
             THEN <<acc.greatest_lower[axis][2], acc.least_upper[axis][2]>>
             ELSE <<acc.least_upper[axis][2], acc.greatest_lower[axis][2]>>))))

pick_seed(mbr, children) ==
    IF cfg.strategy = "quadratic" THEN quadratic_pick_seed(mbr, children)
    ELSE linear_pick_seed(mbr, children)

\* one pass of the loop of SeedSplit::split: the groups and the remaining
\* children it found, the group it assigned to, and whether it assigned all
\* the remaining children (QS2) or only the last one (QS3)
SeedStep(children, k_mbr, k_children, l_mbr, l_children, to, all) ==
    [remaining |-> children, k_mbr |-> k_mbr, k_len |-> Len(k_children),
     l_mbr |-> l_mbr, l_len |-> Len(l_children), to |-> to, all |-> all]

\* the result r of the later passes, with the pass before them
AfterStep(step, r) == [r EXCEPT !.steps = <<step>> \o @]

\* SeedDistribute without the two checks of QS2
RECURSIVE SeedDistribute_unchecked(_, _, _, _, _, _)
SeedDistribute_unchecked(min, children, k_mbr, k_children, l_mbr, l_children) ==
    IF children = <<>>
    THEN [mbr |-> k_mbr, children |-> k_children,
          split_mbr |-> l_mbr, split_children |-> l_children, steps |-> <<>>]
    ELSE LET child == children[Len(children)]
             rest == SubSeq(children, 1, Len(children) - 1)
             k_expanded == expand_mbr_to_fit(GeomOf(child), k_mbr)
             l_expanded == expand_mbr_to_fit(GeomOf(child), l_mbr)
             k_area == area(k_mbr)
             l_area == area(l_mbr)
         IN  IF LexLess(<<area(k_expanded) - k_area, k_area, Len(k_children)>>,
                        <<area(l_expanded) - l_area, l_area, Len(l_children)>>)
             THEN AfterStep(SeedStep(children, k_mbr, k_children, l_mbr,
                                     l_children, "k", FALSE),
                      SeedDistribute_unchecked(min, rest, k_expanded,
                                     Append(k_children, child), l_mbr, l_children))
             ELSE AfterStep(SeedStep(children, k_mbr, k_children, l_mbr,
                                     l_children, "l", FALSE),
                      SeedDistribute_unchecked(min, rest, k_mbr, k_children,
                                     l_expanded, Append(l_children, child)))

\* QS2 / QS3: distribute the remaining children between the two groups; steps
\* are the passes of the loop in order
RECURSIVE SeedDistribute(_, _, _, _, _, _)
SeedDistribute(min, children, k_mbr, k_children, l_mbr, l_children) ==
    IF children = <<>>
    THEN [mbr |-> k_mbr, children |-> k_children,
          split_mbr |-> l_mbr, split_children |-> l_children, steps |-> <<>>]
    ELSE IF Len(k_children) + Len(children) = min
    THEN [mbr |-> ExpandAll(children, k_mbr), children |-> k_children \o children,
          split_mbr |-> l_mbr, split_children |-> l_children,
          steps |-> <<SeedStep(children, k_mbr, k_children, l_mbr, l_children,
                               "k", TRUE)>>]
    ELSE IF Len(l_children) + Len(children) = min
    THEN [mbr |-> k_mbr, children |-> k_children,
          split_mbr |-> ExpandAll(children, l_mbr),
          split_children |-> l_children \o children,
          steps |-> <<SeedStep(children, k_mbr, k_children, l_mbr, l_children,
                               "l", TRUE)>>]
    ELSE LET child == children[Len(children)]
             rest == SubSeq(children, 1, Len(children) - 1)
             k_expanded == expand_mbr_to_fit(GeomOf(child), k_mbr)
             l_expanded == expand_mbr_to_fit(GeomOf(child), l_mbr)
             k_area == area(k_mbr)
             l_area == area(l_mbr)
         IN  IF LexLess(<<area(k_expanded) - k_area, k_area, Len(k_children)>>,
                        <<area(l_expanded) - l_area, l_area, Len(l_children)>>)
             THEN AfterStep(SeedStep(children, k_mbr, k_children, l_mbr,
                                     l_children, "k", FALSE),
                      SeedDistribute(min, rest, k_expanded,
                                     Append(k_children, child), l_mbr, l_children))
             ELSE AfterStep(SeedStep(children, k_mbr, k_children, l_mbr,
                                     l_children, "l", FALSE),
                      SeedDistribute(min, rest, k_mbr, k_children,
                                     l_expanded, Append(l_children, child)))

\* the seed indices as the picker returned them
SeedTieBreak_none(kl, n) == kl

\* the seed indices after the tie adjustment of SeedSplit::split
SeedTieBreak(kl, n) ==
    IF kl[1] = kl[2]
    THEN IF kl[1] < n THEN <<kl[1], kl[2] + 1>> ELSE <<kl[1] - 1, kl[2]>>
    ELSE kl

\* SeedSplit::split has failed a check: nothing is returned
SplitFailed(mbr, children, what) ==
    [mbr |-> mbr, children |-> children, split_mbr |-> max_inverted,
     split_children |-> <<>>, steps |-> <<>>, seeds |-> <<0, 0>>, trap |-> what]

\* SeedSplit::split from the seeds k < l on: the two groups start with the
\* seeds and the remaining children are distributed
SeedGroups(min, children, k, l) ==
    With(RemoveAt(children, k), LAMBDA without_k :
        SeedDistribute(min, RemoveAt(without_k, l - 1),
            expand_mbr_to_fit(GeomOf(children[k]), max_inverted), <<children[k]>>,
            expand_mbr_to_fit(GeomOf(without_k[l - 1]), max_inverted),
            <<without_k[l - 1]>>))

\* SeedSplit::split: the node's mbr and children after the call, the mbr and
\* children of the new sibling, the seeds (k, l) the groups started with, the
\* passes of the distribution loop, and the check that failed, if any
seed_split(min, mbr, children) ==
    IF children = <<>> THEN SplitFailed(mbr, children, "Empty children should not be split.")
    ELSE IF Len(children) < 2 /\ cfg.strategy = "quadratic"
    THEN SplitFailed(mbr, children, "pick_seed: unwrap on None")
    ELSE With(SeedTieBreak(pick_seed(mbr, children), Len(children)), LAMBDA kl :
             IF kl[1] < 1
             THEN SplitFailed(mbr, children, "attempt to subtract with overflow")
             ELSE IF ~(kl[1] < kl[2])
             THEN SplitFailed(mbr, children, "k must be less than l")
             ELSE SeedGroups(min, children, kl[1], kl[2])
                      @@ [seeds |-> kl, trap |-> ""])

r_area_cost(mbr, leaf) ==
    LET expanded_area == area(expand_mbr_to_fit(GeomOf(leaf), mbr))
    IN  <<expanded_area - area(mbr), expanded_area>>

\* the index of the chosen child; the caller has checked that the level is
\* not empty
r_choose_subnode(level, leaf) ==
    MinByKey([i \in 1..Len(level) |-> r_area_cost(level[i].mbr, leaf)])

r_handle_overflow(level) ==
    With(seed_split(cfg.preferred_min, level.mbr, level.children), LAMBDA s :
        IF s.trap # "" THEN ITrap(level, s.trap)
        ELSE IResult([level EXCEPT !.mbr = s.mbr, !.children = s.children], "Split",
                     [tag |-> level.tag, mbr |-> s.split_mbr,
                      children |-> s.split_children]))

RECURSIVE r_insert_into_level(_, _)
r_insert_into_level(level, leaf) ==
    With(expand_mbr_to_fit(leaf.geometry, level.mbr), LAMBDA expanded :
    With(IF has_leaves(level) THEN Pushed(Leaves(expanded, Append(level.children, leaf)))
         ELSE IF level.children = <<>> THEN ITrap(level, "Level should not be empty!")
         ELSE With(r_choose_subnode(level.children, leaf), LAMBDA idx :
              With(r_insert_into_level(level.children[idx], leaf), LAMBDA r :
              With([level.children EXCEPT ![idx] = r.node], LAMBDA children :
                  IF r.trap # "" THEN ITrap(Level(expanded, children), r.trap)
                  ELSE IF r.tag = "Split"
                  THEN Pushed(Level(expanded, Append(children, r.payload)))
                  ELSE Pushed(Level(expanded, children))))),
         LAMBDA m :
             IF m.tag # "Pushed" THEN m
             ELSE IF Len(m.node.children) > cfg.max THEN r_handle_overflow(m.node)
             ELSE IResult(m.node, "Ok", <<>>)))

r_insert_into_root(rt, leaf) ==
    With(r_insert_into_level(rt, leaf), LAMBDA r :
        IF r.trap # "" THEN RootResult(r.node, r.trap)
        ELSE IF r.tag = "Split" THEN RootResult(handle_split_root(r.node, r.payload), "")
        ELSE RootResult(r.node, ""))

\* IndexInsert::insert_into_root of the map's insert strategy
insert_into_root(rt, leaf) ==
    IF cfg.strategy = "rstar" THEN rs_insert_into_root(rt, leaf)
    ELSE r_insert_into_root(rt, leaf)

(***************************************************************************)
(* Queries (query.rs): [mode, rect]                                        *)
(***************************************************************************)
ContainedBy(rect) == [mode |-> "ContainedBy", rect |-> rect]
Overlaps(rect) == [mode |-> "Overlaps", rect |-> rect]

accept_leaf(query, leaf) ==
    IF query.mode = "ContainedBy" THEN contained_by_mbr(leaf.geometry, query.rect)
    ELSE overlapped_by_mbr(leaf.geometry, query.rect)

accept_level(query, level) == overlapped_by_mbr(GeomOf(level), query.rect)

(***************************************************************************)
(* vecext.rs                                                               *)
(***************************************************************************)
\* RetainPart::retain_part from index i on: pred[j] is f(&v[j]), which the
\* loop evaluates when it reaches j (the element is still in its place then)
RECURSIVE retain_part(_, _, _, _)
retain_part(v, pred, i, del) ==
    IF i > Len(v) THEN [v |-> v, del |-> del]
    ELSE IF ~pred[i] THEN retain_part(v, pred, i + 1, del + 1)
    ELSE IF del > 0 THEN retain_part(Swap(v, i - del, i), pred, i + 1, del)
    ELSE retain_part(v, pred, i + 1, del)

\* "for i in 0..del { m.push(self.pop().unwrap()) }"
RECURSIVE PopInto(_, _, _)
PopInto(v, m, n) ==
    IF n = 0 THEN [v |-> v, m |-> m]
    ELSE PopInto(SubSeq(v, 1, Len(v) - 1), Append(m, v[Len(v)]), n - 1)

\* RetainAndAppend::retain_and_append: the vector and m after the call
retain_and_append(v, m, pred) ==
    With(retain_part(v, pred, 1, 0), LAMBDA p : PopInto(p.v, m, p.del))

(***************************************************************************)
(* Removal (index/r.rs, RRemove).  The retain predicate f is the set of    *)
(* items it keeps: f(item) is item \in keep.                               *)
(***************************************************************************)
\* what a removal call has accumulated: removed, to_reinsert and the items
\* f was called with, in call order
RAcc(removed, to_reinsert, calls) ==
    [removed |-> removed, to_reinsert |-> to_reinsert, calls |-> calls]

\* the node after the call, the returned flag and the accumulators
RResult(n, retain, acc) == [node |-> n, retain |-> retain, acc |-> acc]

\* LeafPredicate with f negated
LeafPredicate_negated(query, children, keep) ==
    [pred |-> Vec([i \in 1..Len(children) |->
                      ~accept_leaf(query, children[i]) \/ children[i].item \notin keep]),
     calls |-> With(SelectSeq(children, LAMBDA c : accept_leaf(query, c)), LAMBDA called :
                   [i \in 1..Len(called) |-> called[i].item])]

\* f(&item) for the leaves of children the query accepts: the leaves to keep
\* (TRUE) and the items f was called with, in call order
\* LeafPredicate with the closure |leaf| f(&leaf.item) || !query.accept_leaf(leaf),
\* which calls f for every leaf of the node
LeafPredicate_eager(query, children, keep) ==
    [pred |-> Vec([i \in 1..Len(children) |->
                      ~accept_leaf(query, children[i]) \/ children[i].item \in keep]),
     calls |-> [i \in 1..Len(children) |-> children[i].item]]

LeafPredicate(query, children, keep) ==
    [pred |-> Vec([i \in 1..Len(children) |->
                      ~accept_leaf(query, children[i]) \/ children[i].item \in keep]),
     calls |-> With(SelectSeq(children, LAMBDA c : accept_leaf(query, c)), LAMBDA called :
                   [i \in 1..Len(called) |-> called[i].item])]

\* remove_matching_leaves that drops an under-full node together with the
\* leaves it still holds
remove_matching_leaves_drop(query, level, acc, keep, at_root) ==
    With(LeafPredicate(query, level.children, keep), LAMBDA p :
    With(retain_and_append(level.children, acc.removed, p.pred), LAMBDA ra :
        IF Len(ra.v) < cfg.min /\ ~at_root
        THEN RResult(Leaves(level.mbr, <<>>), FALSE,
                     RAcc(ra.m, acc.to_reinsert, acc.calls \o p.calls))
        ELSE RResult(Leaves(IF Len(level.children) # Len(ra.v) THEN TightMbr(ra.v)
                            ELSE level.mbr, ra.v),
                     TRUE, RAcc(ra.m, acc.to_reinsert, acc.calls \o p.calls))))

\* remove_matching_leaves without the condense step: an under-full node stays
remove_matching_leaves_stay(query, level, acc, keep, at_root) ==
    With(LeafPredicate(query, level.children, keep), LAMBDA p :
    With(retain_and_append(level.children, acc.removed, p.pred), LAMBDA ra :
        RResult(Leaves(IF Len(level.children) # Len(ra.v) THEN TightMbr(ra.v)
                       ELSE level.mbr, ra.v),
                TRUE, RAcc(ra.m, acc.to_reinsert, acc.calls \o p.calls))))

remove_matching_leaves(query, level, acc, keep, at_root) ==
    With(LeafPredicate(query, level.children, keep), LAMBDA p :
    With(retain_and_append(level.children, acc.removed, p.pred), LAMBDA ra :
        IF Len(ra.v) < cfg.min /\ ~at_root
        THEN RResult(Leaves(level.mbr, <<>>), FALSE,
                     RAcc(ra.m, acc.to_reinsert \o ra.v, acc.calls \o p.calls))
        ELSE RResult(Leaves(IF Len(level.children) # Len(ra.v) THEN TightMbr(ra.v)
                            ELSE level.mbr, ra.v),
                     TRUE, RAcc(ra.m, acc.to_reinsert, acc.calls \o p.calls))))

\* the leaves below the nodes, in the order consume_leaves_for_reinsert
\* appends them
RECURSIVE consume_leaves_for_reinsert(_)
consume_leaves_for_reinsert(nodes) ==
    IF nodes = <<>> THEN <<>>
    ELSE (IF has_leaves(Head(nodes)) THEN Head(nodes).children
          ELSE consume_leaves_for_reinsert(Head(nodes).children))
         \o consume_leaves_for_reinsert(Tail(nodes))

\* the nodes emptied by consume_leaves_for_reinsert
RECURSIVE Consumed(_)
Consumed(nodes) ==
    Vec([i \in 1..Len(nodes) |->
            IF has_leaves(nodes[i]) THEN [nodes[i] EXCEPT !.children = <<>>]
            ELSE [nodes[i] EXCEPT !.children = Consumed(nodes[i].children)]])

RECURSIVE remove_leaves_from_level(_, _, _, _, _)
RECURSIVE RetainChildren(_, _, _, _, _)

\* children.retain_mut(|child| self.remove_leaves_from_level(.., NOT_AT_ROOT)):
\* the children kept so far, the children still to visit and the accumulators
RetainChildren(query, kept, todo, acc, keep) ==
    IF todo = <<>> THEN [children |-> kept, acc |-> acc]
    ELSE With(remove_leaves_from_level(query, Head(todo), acc, keep, FALSE), LAMBDA r :
             RetainChildren(query, IF r.retain THEN Append(kept, r.node) ELSE kept,
                            Tail(todo), r.acc, keep))

remove_leaves_from_level(query, level, acc, keep, at_root) ==
    IF ~accept_level(query, level) THEN RResult(level, TRUE, acc)
    ELSE IF has_leaves(level)
    THEN remove_matching_leaves(query, level, acc, keep, at_root)
    ELSE With(RetainChildren(query, <<>>, level.children, acc, keep), LAMBDA rc :
             IF Len(rc.children) < cfg.min /\ ~at_root
             THEN RResult(Level(level.mbr, Consumed(rc.children)), FALSE,
                          RAcc(rc.acc.removed,
                               rc.acc.to_reinsert \o consume_leaves_for_reinsert(rc.children),
                               rc.acc.calls))
             ELSE RResult(Level(IF Len(level.children) # Len(rc.children)
                                THEN TightMbr(rc.children) ELSE level.mbr, rc.children),
                          TRUE, rc.acc))

\* CT6: "for leaf in to_reinsert { root = insert_index.insert_into_root(root, leaf) }"
RECURSIVE ReinsertOrphans(_, _)
ReinsertOrphans(rt, leaves) ==
    IF leaves = <<>> THEN RootResult(rt, "")
    ELSE With(insert_into_root(rt, Head(leaves)), LAMBDA r :
             IF r.trap # "" THEN r ELSE ReinsertOrphans(r.root, Tail(leaves)))

\* remove_from_root that leaves an emptied interior root in place
remove_from_root_keep(rt, query, keep) ==
    IF is_empty(rt)
    THEN [root |-> rt, removed |-> <<>>, to_reinsert |-> <<>>, calls |-> <<>>, trap |-> ""]
    ELSE With(remove_leaves_from_level(query, rt, RAcc(<<>>, <<>>, <<>>), keep, TRUE),
              LAMBDA r :
         With(ReinsertOrphans(r.node, r.acc.to_reinsert), LAMBDA ins :
             [root |-> ins.root, removed |-> r.acc.removed,
              to_reinsert |-> r.acc.to_reinsert, calls |-> r.acc.calls,
              trap |-> ins.trap]))

\* the new root, the removed leaves, the leaves that were reinserted, the
\* calls of f and the trap that aborted the call, if any
remove_from_root(rt, query, keep) ==
    IF is_empty(rt)
    THEN [root |-> rt, removed |-> <<>>, to_reinsert |-> <<>>, calls |-> <<>>, trap |-> ""]
    ELSE With(remove_leaves_from_level(query, rt, RAcc(<<>>, <<>>, <<>>), keep, TRUE),
              LAMBDA r :
         With(ReinsertOrphans(IF is_empty(r.node) /\ has_levels(r.node) THEN new_leaves
                              ELSE r.node, r.acc.to_reinsert), LAMBDA ins :
             [root |-> ins.root, removed |-> r.acc.removed,
              to_reinsert |-> r.acc.to_reinsert, calls |-> r.acc.calls,
              trap |-> ins.trap]))

(***************************************************************************)
(* Iteration (map.rs).  A slice iterator is the sequence of the elements   *)
(* it has still to yield; an Option is None or Some(v).  LevelIterMut and  *)
(* IterMut repeat the code of LevelIter and Iter line by line and are      *)
(* modelled by the same operators.                                         *)
(***************************************************************************)
None == [some |-> FALSE]
Some(v) == [some |-> TRUE, v |-> v]

\* LevelIter::new; the borrowed root is passed to the operators that read it
LevelIter_new(query, rt) ==
    [level_stack |-> <<>>, finished |-> is_empty(rt) \/ ~accept_level(query, rt)]

\* LevelIter::next_leaves: the level stack after the call and the result
RECURSIVE next_leaves(_, _, _)
next_leaves(query, level_stack, m_iter) ==
    IF m_iter = <<>> THEN [level_stack |-> level_stack, out |-> None]
    ELSE IF ~accept_level(query, Head(m_iter))
    THEN next_leaves(query, level_stack, Tail(m_iter))
    ELSE IF has_leaves(Head(m_iter))
    THEN [level_stack |-> Append(level_stack, Tail(m_iter)),
          out |-> Some(Head(m_iter).children)]
    ELSE With(next_leaves(query, Append(level_stack, Tail(m_iter)), Head(m_iter).children),
              LAMBDA next :
                  IF ~next.out.some
                  THEN next_leaves(query,
                          SubSeq(next.level_stack, 1, Len(next.level_stack) - 1),
                          next.level_stack[Len(next.level_stack)])
                  ELSE next)

\* the "while let None = next" loop of LevelIter::next
RECURSIVE LevelIter_drain(_, _)
LevelIter_drain(query, level_stack) ==
    With(next_leaves(query, SubSeq(level_stack, 1, Len(level_stack) - 1),
                     level_stack[Len(level_stack)]), LAMBDA next :
        IF next.out.some
        THEN [li |-> [level_stack |-> next.level_stack, finished |-> FALSE],
              out |-> next.out]
        ELSE IF next.level_stack # <<>> THEN LevelIter_drain(query, next.level_stack)
        ELSE [li |-> [level_stack |-> <<>>, finished |-> TRUE], out |-> None])

\* LevelIter::next: the iterator after the call and the leaf iterator returned
LevelIter_next(query, rt, li) ==
    IF li.finished THEN [li |-> li, out |-> None]
    ELSE IF li.level_stack = <<>> /\ has_leaves(rt)
    THEN [li |-> [li EXCEPT !.finished = TRUE], out |-> Some(rt.children)]
    ELSE LevelIter_drain(query,
            IF li.level_stack = <<>> THEN <<rt.children>> ELSE li.level_stack)

\* Iter::new
Iter_new(query, rt) ==
    [query |-> query, level_iter |-> LevelIter_new(query, rt),
     leaf_iter |-> None, finished |-> FALSE]

\* next_leaf without the accept_leaf test
next_leaf_unfiltered(query, iter) ==
    IF iter = <<>> THEN [left |-> None, out |-> None]
    ELSE [left |-> Some(Tail(iter)), out |-> Some(Head(iter))]

\* Iter::next_leaf: the leaf iterator left in self.leaf_iter and the result
RECURSIVE next_leaf(_, _)
next_leaf(query, iter) ==
    IF iter = <<>> THEN [left |-> None, out |-> None]
    ELSE IF ~accept_leaf(query, Head(iter)) THEN next_leaf(query, Tail(iter))
    ELSE [left |-> Some(Tail(iter)), out |-> Some(Head(iter))]

\* self.next_leaf(iter) on the leaf iterator l.out.v that the level iterator
\* has returned: the iterator after the call and the leaf found, if any
LeafStep(it, l) ==
    With(next_leaf(it.query, l.out.v), LAMBDA n :
        [it |-> [it EXCEPT !.level_iter = l.li, !.leaf_iter = n.left], out |-> n.out])

\* the "while let None = next" loop of Iter::next
RECURSIVE Iter_drain(_, _)
Iter_drain(rt, it) ==
    With(LevelIter_next(it.query, rt, it.level_iter), LAMBDA l :
        IF l.out.some
        THEN With(LeafStep(it, l), LAMBDA s :
                 IF s.out.some THEN s ELSE Iter_drain(rt, s.it))
        ELSE [it |-> [it EXCEPT !.level_iter = l.li, !.leaf_iter = None,
                                     !.finished = TRUE],
              out |-> None])

\* Iter::next starting over from the root once the iterator has finished
Iter_next_rewind(rt, it) ==
    With(IF it.finished THEN Iter_new(it.query, rt) ELSE it, LAMBDA i :
    With(IF i.leaf_iter.some
         THEN [li |-> i.level_iter, out |-> i.leaf_iter]
         ELSE LevelIter_next(i.query, rt, i.level_iter), LAMBDA l :
        IF ~l.out.some
        THEN [it |-> [i EXCEPT !.level_iter = l.li, !.finished = TRUE], out |-> None]
        ELSE With(LeafStep(i, l), LAMBDA s :
                 IF s.out.some THEN s ELSE Iter_drain(rt, s.it))))

\* Iter::next: the iterator after the call and the item returned
Iter_next(rt, it) ==
    IF it.finished THEN [it |-> it, out |-> None]
    ELSE With(IF it.leaf_iter.some
              THEN [li |-> it.level_iter, out |-> it.leaf_iter]
              ELSE LevelIter_next(it.query, rt, it.level_iter), LAMBDA l :
             IF ~l.out.some
             THEN [it |-> [it EXCEPT !.level_iter = l.li, !.finished = TRUE], out |-> None]
             ELSE With(LeafStep(it, l), LAMBDA s :
                      IF s.out.some THEN s ELSE Iter_drain(rt, s.it)))

\* the leaves an iterator yields until its first None (Iterator::count, collect)
RECURSIVE Collect(_, _, _)
Collect(rt, it, acc) ==
    With(Iter_next(rt, it), LAMBDA r :
        IF r.out.some THEN Collect(rt, r.it, Append(acc, r.out.v)) ELSE acc)

\* MbrMap::iter_query(query).collect(), likewise iter_query_mut
iter_query(rt, query) == Collect(rt, Iter_new(query, rt), <<>>)

\* MbrMap::iter().collect(), likewise iter_mut
iter(rt) == iter_query(rt, Overlaps(max_universe))

(***************************************************************************)
(* Strategy construction                                                   *)
(***************************************************************************)
\* D_REINSERT_P and D_SPLIT_P, in percent
D_REINSERT_P == 30
D_SPLIT_P == 40

\* "(max as f32 * p) as usize" for a fraction of pct percent
Fraction(max, pct) == (max * pct) \div 100

\* new_with_options without the assertion max > max_k
RStarInsert_unchecked(max, reinsert_p, split_p, choose_subtree_p) ==
    LET preferred_min == fmax(Fraction(max, fmin(reinsert_p, split_p)), 1)
        reinsert_size == fmax(Fraction(max, reinsert_p), 1)
        min_k == fmax(Fraction(max, split_p), 1)
        underflow == max < 2 * min_k \/ max < reinsert_size
        max_k == fmax(max - (2 * min_k) + 1, min_k + 1)
    IN  [strategy |-> "rstar", max |-> max, preferred_min |-> preferred_min,
         reinsert_m |-> max - reinsert_size, choose_subtree_p |-> choose_subtree_p,
         min_k |-> min_k, max_k |-> max_k,
         valid |-> ~underflow /\ max_k > min_k]

\* RStarInsert::new_with_options; valid is FALSE when the constructor panics
RStarInsert(max, reinsert_p, split_p, choose_subtree_p) ==
    LET preferred_min == fmax(Fraction(max, fmin(reinsert_p, split_p)), 1)
        reinsert_size == fmax(Fraction(max, reinsert_p), 1)
        min_k == fmax(Fraction(max, split_p), 1)
        underflow == max < 2 * min_k \/ max < reinsert_size
        max_k == fmax(max - (2 * min_k) + 1, min_k + 1)
    IN  [strategy |-> "rstar", max |-> max, preferred_min |-> preferred_min,
         reinsert_m |-> max - reinsert_size, choose_subtree_p |-> choose_subtree_p,
         min_k |-> min_k, max_k |-> max_k,
         valid |-> ~underflow /\ max_k > min_k /\ max > max_k]

\* RInsert::new_with_max with SeedSplit::linear() or SeedSplit::quadratic()
RInsert(splitter, max) ==
    [strategy |-> splitter, max |-> max, preferred_min |-> Fraction(max, 30),
     reinsert_m |-> 0, choose_subtree_p |-> 0, min_k |-> 0, max_k |-> 0, valid |-> TRUE]

\* IndexInsert::preferred_min
preferred_min(insert) == insert.preferred_min

\* RRemove::with_min; valid is FALSE when the assertion min > 0 fails
RRemove(min) == [min |-> min, valid |-> min > 0]

\* MbrMap::new: the strategies the map keeps (Init sets root and len)
MbrMap_new(insert_index, remove_index) ==
    [insert_index EXCEPT !.valid = @ /\ remove_index.valid] @@ [min |-> remove_index.min]

\* the maps a caller builds from the insert strategies: the remove strategy
\* gets the preferred minimum of the insert strategy
MapsOf(inserts) ==
    {m \in {MbrMap_new(i, RRemove(preferred_min(i))) : i \in inserts} : m.valid}

\* the maps with small nodes
FreeMaps ==
    MapsOf({RStarInsert(3, D_REINSERT_P, D_SPLIT_P, D_CHOOSE_SUBTREE_P),
            RInsert("linear", 4), RInsert("quadratic", 4)})

(***************************************************************************)
(* Inputs                                                                  *)
(***************************************************************************)
Coords == 1..MaxCoord

\* the geometries a caller inserts: a rectangle and points of the diagonal
Geoms == {from_corners(<<0, 0>>, <<1, 1>>)} \cup {Point(<<c, c>>) : c \in Coords}

\* the item stored with a geometry
ItemOf(g) == g.x[1] + g.y[2]

Items == {ItemOf(g) : g \in Geoms}

\* the queries a caller asks
Queries ==
    {ContainedBy(from_corners(<<0, 0>>, <<1, 1>>)),
     Overlaps(from_corners(<<1, 1>>, <<MaxCoord, MaxCoord>>)),
     ContainedBy(max_universe)}

\* the retain predicates |x| *x >= 2 and |_| true, as the sets of the items
\* they keep
Keeps == {{i \in Items : i >= 2}, Items}

(***************************************************************************)
(* The map (map.rs): MbrMap::new and the public operations                 *)
(***************************************************************************)
\* the map has only been filled: bag holds the leaves inserted so far
Filled(bag) == [only_inserts |-> TRUE, bag |-> bag]

\* a removal or a panic has changed the map
NotFilled == [only_inserts |-> FALSE, bag |-> EmptyBag]

Init ==
    /\ cfg \in FreeMaps
    /\ root = new_leaves
    /\ len = 0
    /\ last = [op |-> "new", trap |-> ""]
    /\ filled = Filled(EmptyBag)

\* MbrMap::len and MbrMap::is_empty
MbrMap_len == len
MbrMap_is_empty == len = 0

\* a panic unwinds out of the call: the root stays the placeholder that
\* mem::replace put in its place and len is not updated
Panicked(op, what) ==
    /\ root' = new_leaves
    /\ len' = len
    /\ last' = [op |-> op, trap |-> what]
    /\ filled' = NotFilled

\* MbrMap::insert once insert_into_root has returned r, or panicked
Inserted(leaf, r) ==
    IF r.trap # "" THEN Panicked("insert", r.trap)
    ELSE /\ root' = r.root
         /\ len' = len + 1
         /\ last' = [op |-> "insert", leaf |-> leaf, reinserted |-> r.reinserted,
                     resplit |-> r.resplit, overflowed |-> r.overflowed, trap |-> ""]
         /\ filled' = IF filled.only_inserts
                      THEN Filled(filled.bag (+) SetToBag({leaf})) ELSE NotFilled

Insert(g, i) ==
    /\ last.trap = ""
    /\ Inserted(MbrLeaf(g, i), insert_into_root(root, MbrLeaf(g, i)))
    /\ UNCHANGED cfg

\* MbrMap::retain once remove_from_root has returned r, or panicked
Retained(op, query, keep, r) ==
    IF r.trap # "" THEN Panicked(op, r.trap)
    ELSE /\ root' = r.root
         /\ len' = len - Len(r.removed)
         /\ last' = [op |-> op, query |-> query, keep |-> keep,
                     removed |-> r.removed, to_reinsert |-> r.to_reinsert,
                     calls |-> r.calls, trap |-> ""]
         /\ filled' = NotFilled

RetainOp(op, query, keep) ==
    /\ last.trap = ""
    /\ Retained(op, query, keep, remove_from_root(root, query, keep))
    /\ UNCHANGED cfg

Remove(query) == RetainOp("remove", query, {})

Retain(query, keep) == RetainOp("retain", query, keep)

Clear ==
    /\ last.trap = ""
    /\ root' = new_leaves
    /\ len' = 0
    /\ last' = [op |-> "clear", trap |-> ""]
    /\ filled' = Filled(EmptyBag)
    /\ UNCHANGED cfg

\* iter_query(query) or iter_query_mut(query), run to its first None
IterQuery(query) ==
    /\ last.trap = ""
    /\ last' = [op |-> "iter_query", query |-> query,
                yielded |-> iter_query(root, query), trap |-> ""]
    /\ UNCHANGED <<cfg, root, len, filled>>

\* iter() or iter_mut(), run to its first None
Iter ==
    /\ last.trap = ""
    /\ last' = [op |-> "iter", query |-> Overlaps(max_universe),
                yielded |-> iter(root), trap |-> ""]
    /\ UNCHANGED <<cfg, root, len, filled>>

Next ==
    \/ \E g \in Geoms : len < MaxLeaves /\ Insert(g, ItemOf(g))
    \/ \E q \in Queries : Remove(q)
    \/ \E q \in Queries, keep \in Keeps : Retain(q, keep)
    \/ Clear
    \/ \E q \in Queries : IterQuery(q)
    \/ Iter

Spec == Init /\ [][Next]_vars

(***************************************************************************)
(* The workload of the integration test (tests/rstar.rs): the points of    *)
(* the diagonal are inserted in order, then ranges of the diagonal are     *)
(* queried and removed.  The maps have a minimum of 2, and the R*-tree     *)
(* with nodes of at most 4 entries reaches height 3.                       *)
(***************************************************************************)
DeepMaps ==
    MapsOf({RStarInsert(4, 50, 50, D_CHOOSE_SUBTREE_P),
            RStarInsert(7, D_REINSERT_P, D_SPLIT_P, D_CHOOSE_SUBTREE_P),
            RInsert("linear", 7), RInsert("quadratic", 7)})

\* the ranges of the diagonal a caller queries with
DeepRanges == {<<0, 3>>, <<4, 9>>, <<8, MaxDeepLeaves>>}

DeepQueries == {ContainedBy(from_corners(<<r[1], r[1]>>, <<r[2], r[2]>>)) : r \in DeepRanges}

DeepItems == 0..(2 * MaxDeepLeaves)

\* the retain predicates |x| x % 4 == 0 and |_| true, as the sets of the items
\* they keep
DeepKeeps == {{i \in DeepItems : i % 4 = 0}, DeepItems}

InitDeep ==
    /\ cfg \in DeepMaps
    /\ root = new_leaves
    /\ len = 0
    /\ last = [op |-> "new", trap |-> ""]
    /\ filled = Filled(EmptyBag)

\* the map is being filled: it is new or cleared, or the last call was an insert
Filling == last.op \in {"new", "insert", "clear"}

NextDeep ==
    \/ Filling /\ len < MaxDeepLeaves /\ Insert(Point(<<len, len>>), ItemOf(Point(<<len, len>>)))
    \/ \E q \in DeepQueries : Remove(q)
    \/ \E q \in DeepQueries, keep \in DeepKeeps : Retain(q, keep)
    \/ Clear
    \/ \E q \in DeepQueries : IterQuery(q)
    \/ Iter

SpecDeep == InitDeep /\ [][NextDeep]_vars

(***************************************************************************)
(* Maps that store geometries on the edge of the coordinate range.  The    *)
(* root never overflows, so no score (area, margin, distance) is computed  *)
(* on these coordinates: only comparisons are.                             *)
(***************************************************************************)
\* points at P::max_value() and P::min_value(), and an ordinary point
EdgeGeoms == {Point(<<FMax, FMax>>), Point(<<-FMax, -FMax>>), Point(<<1, 1>>)}

EdgeQueries == {ContainedBy(max_universe), Overlaps(from_corners(<<0, 0>>, <<FMax, FMax>>))}

EdgeItems == {ItemOf(g) : g \in EdgeGeoms}

\* the retain predicates |x| *x >= 2 and |_| true, as the sets of the items
\* they keep
EdgeKeeps == {{i \in EdgeItems : i >= 2}, EdgeItems}

NextEdge ==
    \/ \E g \in EdgeGeoms : len < cfg.max /\ Insert(g, ItemOf(g))
    \/ \E q \in EdgeQueries : Remove(q)
    \/ \E q \in EdgeQueries, keep \in EdgeKeeps : Retain(q, keep)
    \/ Clear
    \/ \E q \in EdgeQueries : IterQuery(q)
    \/ Iter

SpecEdge == Init /\ [][NextEdge]_vars

(***************************************************************************)
(* The constructors a caller uses before it has a map: Rect::new,          *)
(* RStarInsert::new_with_options and RRemove::with_min.  Each call is      *)
(* recorded in last with its arguments and its result.                     *)
(***************************************************************************)
\* the endpoints a caller passes to Rect::new: finite ones and an infinite one
CtorCoords == (0..MaxCoord) \cup {Inf}

\* the edges a caller passes to Rect::new, swapped endpoints included
CtorEdges == [Axes -> CtorCoords \X CtorCoords]

\* the fractions (reinsert_p, split_p) a caller passes, in percent: the
\* defaults and one half
CtorFractions == {<<D_REINSERT_P, D_SPLIT_P>>, <<50, 50>>}

NewRect(edges) ==
    /\ last' = [op |-> "Rect::new", edges |-> edges,
                rect |-> Rect_new(edges).rect, trap |-> Rect_new(edges).trap]
    /\ UNCHANGED <<cfg, root, len, filled>>

NewRStarInsert(max, p) ==
    /\ last' = [op |-> "RStarInsert::new_with_options", max |-> max, fractions |-> p,
                insert_index |-> RStarInsert(max, p[1], p[2], D_CHOOSE_SUBTREE_P),
                trap |-> IF RStarInsert(max, p[1], p[2], D_CHOOSE_SUBTREE_P).valid
                         THEN "" ELSE "new_with_options: assertion failed"]
    /\ UNCHANGED <<cfg, root, len, filled>>

NewRRemove(min) ==
    /\ last' = [op |-> "RRemove::with_min", min |-> min, remove_index |-> RRemove(min),
                trap |-> IF RRemove(min).valid THEN "" ELSE "min must be at least 0."]
    /\ UNCHANGED <<cfg, root, len, filled>>

NextCtor ==
    \/ \E edges \in CtorEdges : NewRect(edges)
    \/ \E max \in 0..MaxNodeSize, p \in CtorFractions : NewRStarInsert(max, p)
    \/ \E min \in 0..MaxNodeSize : NewRRemove(min)

SpecCtor == Init /\ [][NextCtor]_vars

(***************************************************************************)
(* Iterators driven one next() at a time.  The map is filled with the      *)
(* points of the diagonal and thinned by remove; an iterator borrows the   *)
(* map, so nothing else is called on the map until the iterator has        *)
(* returned None.  last holds the iterator, the result of its last next()  *)
(* and the numbers of leaves and of None it has returned.                  *)
(***************************************************************************)
MaxIterLeaves == 9
MaxNoneCalls == 2

\* maps with nodes small enough for a tree of height 3 to hold few leaves
IterMaps ==
    {MbrMap_new(RInsert(s, 2), RRemove(1)) : s \in {"linear", "quadratic"}}
        \cup MapsOf({RStarInsert(3, D_REINSERT_P, D_SPLIT_P, D_CHOOSE_SUBTREE_P)})

InitIter ==
    /\ cfg \in IterMaps
    /\ root = new_leaves
    /\ len = 0
    /\ last = [op |-> "new", trap |-> ""]
    /\ filled = Filled(EmptyBag)

\* an iterator exists and has not returned None yet
Iterating == last.op = "iter_new" \/ (last.op = "next" /\ last.out.some)

\* iter_query(query), iter_query_mut(query), and iter(), iter_mut() with the
\* query that accepts everything
NewIter(query) ==
    /\ ~Iterating
    /\ last.trap = ""
    /\ last' = [op |-> "iter_new", it |-> Iter_new(query, root), nones |-> 0,
                yielded |-> 0, trap |-> ""]
    /\ UNCHANGED <<cfg, root, len, filled>>

\* Iterator::next on the iterator; before is the iterator as the call found it
CallNext ==
    /\ last.op \in {"iter_new", "next"}
    /\ last.nones < MaxNoneCalls
    /\ last' = With(Iter_next(root, last.it), LAMBDA r :
                   [op |-> "next", before |-> last.it, it |-> r.it, out |-> r.out,
                    nones |-> last.nones + (IF r.out.some THEN 0 ELSE 1),
                    yielded |-> last.yielded + (IF r.out.some THEN 1 ELSE 0),
                    trap |-> ""])
    /\ UNCHANGED <<cfg, root, len, filled>>

NextIter ==
    \/ ~Iterating /\ filled.only_inserts /\ len < MaxIterLeaves
           /\ Insert(Point(<<len, len>>), ItemOf(Point(<<len, len>>)))
    \/ ~Iterating /\ \E q \in DeepQueries : Remove(q)
    \/ \E q \in DeepQueries \cup {Overlaps(max_universe)} : NewIter(q)
    \/ CallNext

SpecIter == InitIter /\ [][NextIter]_vars

\* a caller that drives an iterator (a for loop, collect, count) calls next
\* again while the iterator has not returned None
SpecIterFair == SpecIter /\ WF_vars(Iterating /\ CallNext)

(***************************************************************************)
(* The node operations of the insert strategies, called on the children of *)
(* an overflowing root: any max + 1 leaves in any order, which is what the *)
(* root of a new map holds after max + 1 inserts.  Each call is made once, *)
(* and recorded in last with its arguments and its result.                 *)
(***************************************************************************)
\* the geometries of the leaves: points, a segment and rectangles that are
\* not symmetric in the axes
NodeGeoms ==
    {Point(<<0, 0>>), Point(<<1, MaxCoord>>),
     LineSegment(<<0, 1>>, <<MaxCoord, 0>>),
     from_corners(<<0, 0>>, <<1, MaxCoord>>),
     from_corners(<<0, 1>>, <<MaxCoord, MaxCoord>>),
     from_corners(<<1, 0>>, <<MaxCoord, 1>>)}

\* the geometries of the leaves of the wider nodes
WideNodeGeoms ==
    {Point(<<0, 0>>), Point(<<1, MaxCoord>>),
     from_corners(<<0, 1>>, <<MaxCoord, MaxCoord>>)}

\* the widest node whose leaves are drawn from all of NodeGeoms
NarrowNode == 5

\* the leaves of a node of n entries
NodeChildren(n) ==
    [1..n -> {MbrLeaf(g, ItemOf(g)) :
                 g \in IF n <= NarrowNode THEN NodeGeoms ELSE WideNodeGeoms}]

\* the choose_subtree_p of the R* map that restricts the candidates
NarrowChoice == 2

\* the maps with small nodes, an R* map with one more entry in a node that
\* looks at NarrowChoice children only, an R-tree map with a minimum of two,
\* and the R-tree maps with the smallest nodes, whose remove strategy cannot
\* take the preferred minimum 0 of the insert strategy
NodeMaps ==
    FreeMaps \cup MapsOf({RStarInsert(4, 50, 50, NarrowChoice),
                          RInsert("linear", 7)})
             \cup {MbrMap_new(RInsert(s, 1), RRemove(1)) : s \in {"linear", "quadratic"}}

\* the MBRs of the nodes of a level
NodeMbrs ==
    {from_corners(<<0, 0>>, <<1, 1>>), from_corners(<<1, 1>>, <<MaxCoord, MaxCoord>>),
     from_corners(<<0, 0>>, <<MaxCoord, MaxCoord>>), from_corners(<<0, 1>>, <<1, MaxCoord>>)}

\* a leaf-bearing node with the MBR r, holding the two corners of r, and an
\* interior node with the MBR r, holding two such nodes
LeafNodeOf(r) ==
    Leaves(r, <<MbrLeaf(Point(r.x), ItemOf(Point(r.x))),
                MbrLeaf(Point(r.y), ItemOf(Point(r.y)))>>)

InteriorNodeOf(r) == Level(r, <<LeafNodeOf(r), LeafNodeOf(r)>>)

\* the children of an interior node: two or three nodes of one kind
NodeLevels ==
    UNION {[1..n -> {LeafNodeOf(r) : r \in NodeMbrs}]
               \cup [1..n -> {InteriorNodeOf(r) : r \in NodeMbrs}] : n \in 2..3}

InitNode ==
    /\ cfg \in NodeMaps
    /\ root = new_leaves
    /\ len = 0
    /\ last = [op |-> "new", trap |-> ""]
    /\ filled = Filled(EmptyBag)

\* RStarInsert::split on the children of an overflowing node
CallSplit(children) ==
    /\ cfg.strategy = "rstar"
    /\ last' = [op |-> "split", children |-> children,
                result |-> rs_split(TightMbr(children), children), trap |-> ""]
    /\ UNCHANGED <<cfg, root, len, filled>>

\* SeedSplit::split on the children of an overflowing node
CallSeedSplit(children) ==
    /\ cfg.strategy # "rstar"
    /\ last' = With(seed_split(cfg.preferred_min, TightMbr(children), children),
                    LAMBDA s : [op |-> "seed_split", children |-> children,
                                result |-> s, trap |-> s.trap])
    /\ UNCHANGED <<cfg, root, len, filled>>

\* Linear::pick_seed on the children of an overflowing node
CallPickSeed(children) ==
    /\ cfg.strategy = "linear"
    /\ last' = [op |-> "pick_seed", children |-> children, mbr |-> TightMbr(children),
                result |-> linear_pick_seed(TightMbr(children), children), trap |-> ""]
    /\ UNCHANGED <<cfg, root, len, filled>>

\* RStarInsert::choose_subnode for a leaf on the children of an interior node
CallChooseSubnode(level, leaf) ==
    /\ cfg.strategy = "rstar"
    /\ last' = [op |-> "choose_subnode", level |-> level, leaf |-> leaf,
                result |-> rs_choose_subnode(level, leaf), trap |-> ""]
    /\ UNCHANGED <<cfg, root, len, filled>>

\* no call has been made yet
Uncalled == last.op = "new"

NextNode ==
    \/ Uncalled /\ \E children \in NodeChildren(cfg.max + 1) : CallSplit(children)
    \/ Uncalled /\ \E children \in NodeChildren(cfg.max + 1) : CallSeedSplit(children)
    \/ Uncalled /\ \E children \in NodeChildren(cfg.max + 1) : CallPickSeed(children)
    \/ Uncalled /\ \E level \in NodeLevels, g \in NodeGeoms :
           CallChooseSubnode(level, MbrLeaf(g, ItemOf(g)))

SpecNode == InitNode /\ [][NextNode]_vars

(***************************************************************************)
(* What the properties speak about                                         *)
(***************************************************************************)
\* the leaves reachable from the nodes, left to right
RECURSIVE StoredBelow(_)
StoredBelow(nodes) ==
    IF nodes = <<>> THEN <<>>
    ELSE (IF has_leaves(Head(nodes)) THEN Head(nodes).children
          ELSE StoredBelow(Head(nodes).children))
         \o StoredBelow(Tail(nodes))

\* the leaves reachable from the root rt
Stored(rt) == StoredBelow(<<rt>>)

\* the multiset of the (geometry, item) leaves reachable from the root rt
StoredBag(rt) == SeqToBag(Stored(rt))

\* the number of levels of nodes from n down to the leaf-bearing nodes
RECURSIVE Height(_)
Height(n) == IF has_leaves(n) \/ is_empty(n) THEN 1 ELSE 1 + Height(n.children[1])

\* the last step was a public operation that returned
Completed(ops) == last.op \in ops /\ last.trap = ""

\* the step is a public operation among ops, and it returned
Step(ops) == last'.op \in ops /\ last'.trap = ""

(***************************************************************************)
(* Properties                                                              *)
(***************************************************************************)
\* C1: after any sequence of insert, remove, retain and clear, len() is the
\* number of leaves reachable from the root, which is what iter() and
\* iter_mut() count, and is_empty() is true exactly when that number is 0.
C1_LenIsLeafCount ==
    last.trap = "" =>
        /\ MbrMap_len = Len(Stored(root))
        /\ Len(iter(root)) = Len(Stored(root))
        /\ MbrMap_is_empty <=> Len(Stored(root)) = 0

\* C2: insert(g, i) adds exactly one leaf: the multiset of leaves after the
\* call is the multiset before it plus one copy of (g, i), whatever splits
\* or forced reinsertions the call makes and whether or not g is already
\* stored, and len grows by exactly 1.
C2_InsertAddsOneLeaf ==
    [][Step({"insert"}) =>
          /\ StoredBag(root') = StoredBag(root) (+) SetToBag({last'.leaf})
          /\ len' = len + 1]_vars

\* an insert into a full tree of height 2 has stored a second copy of a leaf
C2_Witness ==
    /\ Completed({"insert"})
    /\ has_levels(root)
    /\ MbrMap_len = MaxLeaves
    /\ CopiesIn(last.leaf, StoredBag(root)) >= 2

\* the leaves of rt that the query accepts and f does not keep
Doomed(rt, query, keep) ==
    SelectSeq(Stored(rt), LAMBDA l : accept_leaf(query, l) /\ l.item \notin keep)

\* C3: retain(q, f) and remove(q) conserve leaves: the leaves stored before
\* the call are those stored after it plus those returned; every orphaned
\* leaf of a condensed node is back in the tree when the call returns; len
\* decreases by the number of returned entries; every returned entry
\* satisfies q.accept_leaf.
C3_RetainConservesLeaves ==
    [][Step({"remove", "retain"}) =>
          /\ StoredBag(root) = StoredBag(root') (+) SeqToBag(last'.removed)
          /\ SeqToBag(last'.to_reinsert) \sqsubseteq StoredBag(root')
          /\ len' = len - Len(last'.removed)
          /\ \A k \in 1..Len(last'.removed) :
                 accept_leaf(last'.query, last'.removed[k])]_vars

\* a removal has returned leaves and reinserted the orphans of a condensed node
C3_Witness ==
    /\ Completed({"remove", "retain"})
    /\ last.removed # <<>>
    /\ last.to_reinsert # <<>>

\* C4: retain(q, f) removes a stored leaf if and only if q accepts its
\* geometry and f(item) is false, leaves on the boundary of the query
\* rectangle included; remove(q) removes exactly the stored leaves q accepts.
C4_RetainRemovesExactlyAccepted ==
    [][Step({"remove", "retain"}) =>
          SeqToBag(last'.removed) = SeqToBag(Doomed(root, last'.query, last'.keep))]_vars

\* C5: iter_query(q) and iter_query_mut(q) yield every stored leaf that
\* q.accept_leaf accepts: pruning by accept_level skips no accepted leaf,
\* leaves on the boundary of the query and degenerate node MBRs included.
C5_IterYieldsEveryAccepted ==
    Completed({"iter_query"}) =>
        SeqToBag(SelectSeq(Stored(root), LAMBDA l : accept_leaf(last.query, l)))
            \sqsubseteq SeqToBag(last.yielded)

\* C6: iter_query(q) and iter_query_mut(q) yield only leaves that
\* q.accept_leaf accepts and yield each stored leaf at most once.
C6_IterYieldsOnlyAcceptedOnce ==
    Completed({"iter_query", "iter"}) =>
        /\ \A k \in 1..Len(last.yielded) : accept_leaf(last.query, last.yielded[k])
        /\ SeqToBag(last.yielded) \sqsubseteq StoredBag(root)

\* a query has yielded some but not all leaves of a tree of height 3, from
\* at least two leaf-bearing nodes
C6_Witness ==
    /\ Completed({"iter_query"})
    /\ Height(root) >= 3
    /\ Len(last.yielded) > cfg.max
    /\ Len(last.yielded) < MbrMap_len

\* every node below and including n has the tight bounding box of its
\* direct children as its mbr
RECURSIVE TightBelow(_)
TightBelow(n) ==
    /\ n.mbr = TightMbr(n.children)
    /\ has_levels(n) => \A k \in 1..Len(n.children) : TightBelow(n.children[k])

\* C7: after each completed insert, remove, retain and clear, every node's
\* MBR is the tight bounding box of its direct children, the ancestors of a
\* child that lost leaves without being dropped included.
C7_MbrsAreTight == last.trap = "" => TightBelow(root)

\* the depths, below n at depth d, of the leaf-bearing nodes
RECURSIVE LeafDepths(_, _)
LeafDepths(n, d) ==
    IF has_leaves(n) THEN {d}
    ELSE UNION {LeafDepths(n.children[k], d + 1) : k \in 1..Len(n.children)}

\* C8: after any sequence of insert, remove, retain and clear, all
\* leaf-bearing nodes are at the same depth below the root.
C8_Balanced == last.trap = "" => Cardinality(LeafDepths(root, 0)) <= 1

\* a removal has dissolved an under-full interior node of a tree of height 3
\* and reinserted the leaves below it
C8_Witness ==
    /\ Completed({"remove", "retain"})
    /\ Len(last.to_reinsert) >= 2 * cfg.min
    /\ Height(root) >= 3

\* the nodes below n, n excluded
RECURSIVE NodesBelow(_)
NodesBelow(n) ==
    IF has_leaves(n) THEN {}
    ELSE UNION {{n.children[k]} \cup NodesBelow(n.children[k]) : k \in 1..Len(n.children)}

\* C9: on a map whose remove minimum is its insert strategy's preferred_min
\* (at least 1), every non-root node holds between min and max entries and
\* the root holds at most max entries.
C9_NodeFill ==
    (last.trap = "" /\ cfg.min = cfg.preferred_min /\ cfg.min >= 1) =>
        /\ Len(root.children) <= cfg.max
        /\ \A n \in NodesBelow(root) :
               cfg.min <= Len(n.children) /\ Len(n.children) <= cfg.max

\* a removal has condensed a tree whose nodes were split before, and a
\* non-root node holds exactly min entries
C9_Witness ==
    /\ Completed({"remove", "retain"})
    /\ last.to_reinsert # <<>>
    /\ cfg.min >= 2
    /\ \E n \in NodesBelow(root) : Len(n.children) = cfg.min

\* C10: after each completed operation an interior root has at least 2
\* children, also when a removal has dropped all but one of its children.
C10_InteriorRootHasTwoChildren ==
    (last.trap = "" /\ has_levels(root)) => Len(root.children) >= 2

\* C11: whenever len is 0 after a completed operation the root is the empty
\* leaf-bearing node of a new map, never an empty interior node, so a map
\* emptied by remove or retain takes inserts like a new one; and
\* choose_subnode is never called on an interior node without children: its
\* assertion "Level should not be empty!" never fires.
C11_EmptyMapHasLeafRoot ==
    /\ last.trap # "Level should not be empty!"
    /\ (last.trap = "" /\ MbrMap_len = 0) => root = new_leaves

\* a removal has emptied a map whose root was an interior node
C11_Witness ==
    /\ Completed({"remove", "retain"})
    /\ MbrMap_len = 0
    /\ Len(last.removed) > cfg.max

\* C12: for every query q and every tree, retain(q, |_| true) returns an
\* empty vector and leaves len unchanged (f keeps every stored item).
C12_RetainAllKeepsAll ==
    [][(Step({"retain"}) /\ \A k \in 1..Len(Stored(root)) :
                                Stored(root)[k].item \in last'.keep) =>
          /\ last'.removed = <<>>
          /\ len' = len]_vars

\* retain(q, |_| true) has called f on leaves of a tree with an interior
\* root, leaves that f does not keep under the other predicate among them
C12_Witness ==
    /\ Completed({"retain"})
    /\ has_levels(root)
    /\ \E k \in 1..Len(last.calls) : last.calls[k] < 2
    /\ \A k \in 1..Len(Stored(root)) : Stored(root)[k].item \in last.keep

\* C13: inserting (g, i) and then calling remove(ContainedBy(Q)) with a
\* rectangle Q that contains g returns len to its value before the insert,
\* and afterwards the tree is balanced, its nodes are within the fill bounds
\* and len is the number of stored leaves.
C13_InsertThenRemoveRestoresLen ==
    [][(/\ Completed({"insert"})
        /\ Step({"remove"})
        /\ last'.query.mode = "ContainedBy"
        /\ contained_by_mbr(last.leaf.geometry, last'.query.rect)) =>
          /\ len' = len - 1
          /\ len' = Len(Stored(root'))
          /\ Cardinality(LeafDepths(root', 0)) <= 1
          /\ Len(root'.children) <= cfg.max
          /\ \A n \in NodesBelow(root') :
                 cfg.min <= Len(n.children) /\ Len(n.children) <= cfg.max]_vars

\* C14: membership is insensitive to the insertion order: whatever leaves
\* are inserted into an empty map, in whatever order, iter() (the query
\* Overlaps(Rect::max())) yields exactly the multiset of the inserted leaves.
C14_IterYieldsInserted ==
    (Completed({"iter"}) /\ filled.only_inserts) =>
        SeqToBag(last.yielded) = filled.bag

\* C15: remove(q) and retain(q, f) return the removed entries in traversal
\* order: the returned vector lists the removed leaves in the order in which
\* iter_query(q) on the tree before the call visits them, also when several
\* or all leaves of one leaf-bearing node are removed.
C15_RemovedInTraversalOrder ==
    [][Step({"remove", "retain"}) =>
          last'.removed = SelectSeq(iter_query(root, last'.query),
                                    LAMBDA l : l.item \notin last'.keep)]_vars

\* C16: Rect::new normalizes each edge given with swapped endpoints: for
\* every finite pair (a, b) the stored edge is (min(a, b), max(a, b)), so no
\* endpoint is lost and lo <= hi.
C16_RectNewNormalizes ==
    Completed({"Rect::new"}) =>
        \A d \in Axes :
            /\ last.rect.x[d] = fmin(last.edges[d][1], last.edges[d][2])
            /\ last.rect.y[d] = fmax(last.edges[d][1], last.edges[d][2])

\* C17: invalid strategy parameters abort construction: RRemove::with_min(0)
\* fails its assertion, and RStarInsert::new_with_options fails whenever the
\* derived constants give max <= max_k (max = 2 with the default fractions);
\* for every other max it succeeds with 1 <= min_k < max_k < max.
C17_InvalidParametersAbort ==
    /\ (last.op = "RRemove::with_min" /\ last.min = 0) => last.trap # ""
    /\ last.op = "RStarInsert::new_with_options" =>
           /\ last.max <= last.insert_index.max_k <=> last.trap # ""
           /\ last.trap = "" =>
                  /\ 1 <= last.insert_index.min_k
                  /\ last.insert_index.min_k < last.insert_index.max_k
                  /\ last.insert_index.max_k < last.max

\* the constructor has refused max = 2 with the default fractions, where
\* max_k is max, not above it
C17_Witness ==
    /\ last.op = "RStarInsert::new_with_options"
    /\ last.max = 2
    /\ last.insert_index.max_k = 2
    /\ last.fractions = <<D_REINSERT_P, D_SPLIT_P>>
    /\ last.trap # ""

\* C18: while an R* insert reinserts its reinsert set (insert_into_level on
\* the root with force_split for each leaf of the set) no call returns
\* Reinsert: every overflow is resolved by a split, the unreachable!() arm of
\* insert_into_root is never executed, and an insert_into_root makes at most
\* one forced reinsertion.
C18_NoReinsertWhileReinserting ==
    last.trap # "unreachable: reinsert during reinsertion"

\* an insert has made a forced reinsertion, and reinserting the set has
\* split the root
C18_Witness ==
    /\ Completed({"insert"})
    /\ last.reinserted # <<>>
    /\ last.resplit

\* C19: in R* insertion only an overflowing leaf-bearing node triggers a
\* forced reinsertion: an interior node never exceeds max entries in a call
\* with at_root = false and force_split = false, so the unreachable!() arm of
\* handle_overflow is never executed.
C19_NoInteriorOverflowWithoutSplit ==
    last.trap # "unreachable: interior node overflow without split"

\* an insert into a tree of height 3 has overflowed a leaf-bearing node below
\* an interior node that is not the root, and has made a forced reinsertion
C19_Witness ==
    /\ Completed({"insert"})
    /\ last.reinserted # <<>>
    /\ ~last.resplit
    /\ Height(root) >= 3

\* C20: when an overflowing leaf-bearing node, holding max + 1 leaves,
\* undergoes forced reinsertion, split_for_reinsert moves exactly
\* max - reinsert_m leaves into the reinsert set, those farthest from the
\* center of the node's MBR, and recomputes the node's MBR tightly from the
\* leaves that remain.
C20_ReinsertSetIsFarthest ==
    (/\ Completed({"insert"})
     /\ last.reinserted # <<>>
     /\ Len(last.overflowed.before.children) = cfg.max + 1) =>
        LET before == last.overflowed.before
            after == last.overflowed.after
        IN  /\ Len(last.reinserted) = cfg.max - cfg.reinsert_m
            /\ SeqToBag(after.children) (+) SeqToBag(last.reinserted)
                   = SeqToBag(before.children)
            /\ \A i \in 1..Len(after.children), j \in 1..Len(last.reinserted) :
                   distance_from_mbr_center(after.children[i].geometry, before.mbr)
                       <= distance_from_mbr_center(last.reinserted[j].geometry, before.mbr)
            /\ after.mbr = TightMbr(after.children)

\* the children of a split in the order in which the candidates of (axis,
\* edge) were evaluated
CandidateOrder(children, axis, edge) ==
    With(SortByEdge(IF axis = 1 THEN children
                    ELSE AxisResults(axis - 1, children)[axis - 1].children,
                    axis, 0), LAMBDA c0 :
        IF edge = 0 THEN c0 ELSE SortByEdge(c0, axis, 1))

\* (overlap area, total area) of the two groups
GroupCost(kept, moved) ==
    <<area_overlapped_with_mbr(TightMbr(kept), TightMbr(moved)),
      area(TightMbr(kept)) + area(TightMbr(moved))>>

\* (overlap area, total area) of the distribution that cuts sorted after k
CandidateCost(sorted, k) ==
    GroupCost(SubSeq(sorted, 1, k), SubSeq(sorted, k + 1, Len(sorted)))

\* C21: the R* split is made on the axis of minimal accumulated margin, keeps
\* a prefix of k entries with k in [min_k, max_k) and moves the rest, both
\* groups are non-empty with tight MBRs, and the two groups returned attain
\* the lexicographically minimal (overlap area, total area) among all the
\* candidate (edge, k) distributions of that axis
C21_SplitIsOptimal ==
    last.op = "split" =>
        /\ \A a \in Axes :
               AxisResults(DIM, last.children)[last.result.s_axis].margin
                   <= AxisResults(DIM, last.children)[a].margin
        /\ last.result.s_index \in cfg.min_k..(cfg.max_k - 1)
        /\ Len(last.result.children) = last.result.s_index
        /\ last.result.children # <<>> /\ last.result.split_children # <<>>
        /\ SeqToBag(last.result.children \o last.result.split_children)
               = SeqToBag(last.children)
        /\ last.result.mbr = TightMbr(last.result.children)
        /\ last.result.split_mbr = TightMbr(last.result.split_children)
        /\ \A e \in {0, 1}, k \in cfg.min_k..(cfg.max_k - 1) :
               ~LexLess(CandidateCost(CandidateOrder(last.children,
                                          last.result.s_axis, e), k),
                        GroupCost(last.result.children,
                                  last.result.split_children))

\* the smallest integer that is not below max * pct / 100
CeilFraction(max, pct) == (max * pct + 99) \div 100

\* C22: for every max that RStarInsert::new_with_options accepts with the
\* default fractions, reinsert_m = max - ceil(max * reinsert_p) with the
\* ceiling at least 1, min_k = ceil(max * split_p) at least 1, and
\* max_k = max(max - 2 * min_k + 1, min_k + 1)
C22_ConstantsUseCeiling ==
    (/\ last.op = "RStarInsert::new_with_options"
     /\ last.fractions = <<D_REINSERT_P, D_SPLIT_P>>
     /\ last.trap = "")
    => /\ last.insert_index.reinsert_m
              = last.max - fmax(CeilFraction(last.max, D_REINSERT_P), 1)
       /\ last.insert_index.min_k = fmax(CeilFraction(last.max, D_SPLIT_P), 1)
       /\ last.insert_index.max_k
              = fmax(last.max - 2 * last.insert_index.min_k + 1,
                     last.insert_index.min_k + 1)

\* what a pass of the distribution loop compares for a group: the area by
\* which its MBR grows to include the entry, the area of its MBR, its size
GroupKey(mbr, n, child) ==
    <<area(expand_mbr_to_fit(GeomOf(child), mbr)) - area(mbr), area(mbr), n>>

\* the pass s of a seed split with minimum min follows the rule: when a group
\* needs all the remaining entries to reach min it gets them all, otherwise
\* the last remaining entry goes to the group with the smaller key
PassFollowsRule(s, min) ==
    IF s.k_len + Len(s.remaining) = min \/ s.l_len + Len(s.remaining) = min
    THEN /\ s.all
         /\ s.to = "k" => s.k_len + Len(s.remaining) = min
         /\ s.to = "l" => s.l_len + Len(s.remaining) = min
    ELSE /\ ~s.all
         /\ LexLess(GroupKey(s.k_mbr, s.k_len, s.remaining[Len(s.remaining)]),
                    GroupKey(s.l_mbr, s.l_len, s.remaining[Len(s.remaining)]))
                => s.to = "k"
         /\ LexLess(GroupKey(s.l_mbr, s.l_len, s.remaining[Len(s.remaining)]),
                    GroupKey(s.k_mbr, s.k_len, s.remaining[Len(s.remaining)]))
                => s.to = "l"

\* the pass t comes after the pass s: s assigned one entry, and t found the
\* groups and the remaining entries as s left them
PassFollows(s, t) ==
    /\ ~s.all
    /\ t.remaining = SubSeq(s.remaining, 1, Len(s.remaining) - 1)
    /\ t.k_len = s.k_len + (IF s.to = "k" THEN 1 ELSE 0)
    /\ t.l_len = s.l_len + (IF s.to = "l" THEN 1 ELSE 0)
    /\ t.k_mbr = IF s.to = "k"
                 THEN expand_mbr_to_fit(GeomOf(s.remaining[Len(s.remaining)]), s.k_mbr)
                 ELSE s.k_mbr
    /\ t.l_mbr = IF s.to = "l"
                 THEN expand_mbr_to_fit(GeomOf(s.remaining[Len(s.remaining)]), s.l_mbr)
                 ELSE s.l_mbr

\* C23: in the seed split the two groups start with the two seeds, every pass
\* assigns the next remaining entry to the group whose MBR grows less (then
\* the one of smaller area, then the smaller one), or all remaining entries
\* to a group that needs them all to reach min; the two groups partition the
\* max + 1 entries and each has at least min entries
C23_SeedSplitDistributes ==
    (last.op = "seed_split" /\ last.trap = "") =>
        /\ Len(last.children) = cfg.max + 1
        /\ SeqToBag(last.result.children \o last.result.split_children)
               = SeqToBag(last.children)
        /\ Len(last.result.children) >= cfg.preferred_min
        /\ Len(last.result.split_children) >= cfg.preferred_min
        /\ last.result.children[1] = last.children[last.result.seeds[1]]
        /\ last.result.split_children[1] = last.children[last.result.seeds[2]]
        /\ last.result.seeds[1] # last.result.seeds[2]
        /\ (last.result.steps = <<>>) = (cfg.max = 1)
        /\ last.result.steps # <<>> =>
               /\ last.result.steps[1].k_len = 1 /\ last.result.steps[1].l_len = 1
               /\ last.result.steps[1].k_mbr = TightMbr(<<last.result.children[1]>>)
               /\ last.result.steps[1].l_mbr
                      = TightMbr(<<last.result.split_children[1]>>)
               /\ Len(last.result.steps[1].remaining) = cfg.max - 1
        /\ \A i \in 1..Len(last.result.steps) :
               PassFollowsRule(last.result.steps[i], cfg.preferred_min)
        /\ \A i \in 1..(Len(last.result.steps) - 1) :
               PassFollows(last.result.steps[i], last.result.steps[i + 1])
        /\ last.result.steps # <<>> =>
           With(last.result.steps[Len(last.result.steps)], LAMBDA s :
               /\ s.all \/ Len(s.remaining) = 1
               /\ Len(last.result.children)
                      = s.k_len + (IF s.to = "k" THEN Len(s.remaining) ELSE 0)
               /\ Len(last.result.split_children)
                      = s.l_len + (IF s.to = "l" THEN Len(s.remaining) ELSE 0))
        /\ last.result.mbr = TightMbr(last.result.children)
        /\ last.result.split_mbr = TightMbr(last.result.split_children)

\* a seed split in which a group got the last remaining entry to reach a
\* minimum of two, after a pass in which both MBRs would have grown by the
\* same positive area and the entry went to the group of smaller area
C23_Witness ==
    /\ last.op = "seed_split" /\ last.trap = ""
    /\ cfg.preferred_min = 2
    /\ \E i \in 1..Len(last.result.steps) : last.result.steps[i].all
    /\ \E i \in 1..Len(last.result.steps) :
           With(last.result.steps[i], LAMBDA s :
               /\ ~s.all
               /\ GroupKey(s.k_mbr, s.k_len, s.remaining[Len(s.remaining)])[1]
                      = GroupKey(s.l_mbr, s.l_len, s.remaining[Len(s.remaining)])[1]
               /\ GroupKey(s.k_mbr, s.k_len, s.remaining[Len(s.remaining)])[1] > 0
               /\ area(s.k_mbr) # area(s.l_mbr))

\* the greatest minimum and the smallest maximum coordinate of the children
\* on an axis
GreatestMin(children, axis) ==
    CHOOSE v \in {min_for_axis(GeomOf(children[i]), axis) : i \in DOMAIN children} :
        \A i \in DOMAIN children : min_for_axis(GeomOf(children[i]), axis) <= v

SmallestMax(children, axis) ==
    CHOOSE v \in {max_for_axis(GeomOf(children[i]), axis) : i \in DOMAIN children} :
        \A i \in DOMAIN children : max_for_axis(GeomOf(children[i]), axis) >= v

\* the width of the MBR on an axis, 1 when it is not positive
AxisWidth(mbr, axis) ==
    IF mbr.y[axis] - mbr.x[axis] <= 0 THEN 1 ELSE mbr.y[axis] - mbr.x[axis]

\* the separation of axis a, normalized by the width, is not below that of b
SeparationNotBelow(mbr, children, a, b) ==
    (SmallestMax(children, a) - GreatestMin(children, a)) * AxisWidth(mbr, b)
        >= (SmallestMax(children, b) - GreatestMin(children, b)) * AxisWidth(mbr, a)

\* C24: Linear::pick_seed returns, for an axis of maximal width-normalized
\* separation, the index of a child with the greatest minimum coordinate and
\* the index of a child with the smallest maximum coordinate on that axis,
\* the smaller index first, whatever the geometries of the children
C24_LinearSeedsAreExtremes ==
    last.op = "pick_seed" =>
        \E a \in Axes :
            /\ \A b \in Axes : SeparationNotBelow(last.mbr, last.children, a, b)
            /\ \E i, j \in DOMAIN last.children :
                   /\ min_for_axis(GeomOf(last.children[i]), a)
                          = GreatestMin(last.children, a)
                   /\ max_for_axis(GeomOf(last.children[j]), a)
                          = SmallestMax(last.children, a)
                   /\ last.result = <<fmin(i, j), fmax(i, j)>>

\* the area of the intersection of an MBR with the geometry of a leaf
IntersectionArea(mbr, leaf) == area_overlapped_with_mbr(GeomOf(leaf), mbr)

\* (area-expansion cost, current area) of an MBR for a leaf
ExpansionKey(mbr, leaf) ==
    <<area(expand_mbr_to_fit(GeomOf(leaf), mbr)) - area(mbr), area(mbr)>>

\* C25: R* choose-subtree among leaf-bearing children picks a child of
\* minimal overlap cost, the area of the intersection of its MBR with the
\* leaf, then minimal area-expansion cost, then minimal area; with more than
\* choose_subtree_p children only the choose_subtree_p children of smallest
\* area-expansion cost are candidates.  Among interior children it picks a
\* child of minimal area-expansion cost, then minimal area
C25_ChooseSubtreeMinimizesOverlap ==
    last.op = "choose_subnode" =>
        /\ SeqToBag(last.result.level) = SeqToBag(last.level)
        /\ last.result.idx \in DOMAIN last.result.level
        /\ IF ~has_leaves(last.level[1])
           THEN \A i \in DOMAIN last.result.level :
                    ~LexLess(ExpansionKey(last.result.level[i].mbr, last.leaf),
                             ExpansionKey(last.result.level[last.result.idx].mbr,
                                          last.leaf))
           ELSE /\ Len(last.level) > cfg.choose_subtree_p =>
                       /\ last.result.idx <= cfg.choose_subtree_p
                       /\ \A i \in 1..cfg.choose_subtree_p :
                              \A j \in (cfg.choose_subtree_p + 1)..Len(last.level) :
                                  ~LexLess(<<ExpansionKey(last.result.level[j].mbr,
                                                          last.leaf)[1]>>,
                                           <<ExpansionKey(last.result.level[i].mbr,
                                                          last.leaf)[1]>>)
                /\ \A i \in 1..fmin(Len(last.level), cfg.choose_subtree_p) :
                       ~LexLess(<<IntersectionArea(last.result.level[i].mbr, last.leaf)>>
                                    \o ExpansionKey(last.result.level[i].mbr, last.leaf),
                                <<IntersectionArea(
                                      last.result.level[last.result.idx].mbr, last.leaf)>>
                                    \o ExpansionKey(
                                           last.result.level[last.result.idx].mbr,
                                           last.leaf))

\* the children of every interior node at or below n are of one kind
KindsUniform(n) ==
    \A m \in {n} \cup NodesBelow(n) :
        has_levels(m) => \A i, j \in DOMAIN m.children :
                             m.children[i].tag = m.children[j].tag

\* this step is an insert that split the leaf-bearing root: the new root is
\* interior and has exactly two children, both leaf-bearing, which hold the
\* leaves of the old root and the new leaf
RootSplitByInsert ==
    /\ last'.op = "insert"
    /\ has_leaves(root) /\ has_levels(root')
    /\ Len(root'.children) = 2
    /\ has_leaves(root'.children[1]) /\ has_leaves(root'.children[2])
    /\ SeqToBag(root'.children[1].children \o root'.children[2].children)
           = SeqToBag(Append(root.children, last'.leaf))

\* this step is a remove or retain that left the interior root without
\* children: the new root is a new leaf-bearing node that holds the
\* reinserted orphans and nothing else
RootReplacedByRemove ==
    /\ last'.op \in {"remove", "retain"}
    /\ has_levels(root) /\ has_leaves(root')
    /\ SeqToBag(root'.children) = SeqToBag(last'.to_reinsert)
    /\ root'.mbr = TightMbr(root'.children)

\* the kind of the root differs before and after a step of insert, remove
\* or retain
RootKindChanges ==
    /\ last'.op \in {"insert", "remove", "retain"}
    /\ root'.tag # root.tag

\* C26: across insert, remove and retain the kind of the root changes only
\* from leaf-bearing to interior and only through a root split during
\* insert, which leaves a new root of exactly two children of the kind of
\* the old root; the children of a node are always of one kind
C26_RootKindOnlyGrows ==
    [][(RootKindChanges => RootSplitByInsert) /\ KindsUniform(root')]_vars

\* C26, amended: the kind of the root changes from leaf-bearing to interior
\* only through a root split during insert, and from interior to
\* leaf-bearing only when a remove or retain leaves the root without
\* children and replaces it by a new leaf-bearing root
C26_RootKindChangesByReplacement ==
    [][(RootKindChanges => RootSplitByInsert \/ RootReplacedByRemove)
       /\ KindsUniform(root')]_vars

\* a retain or remove has replaced an interior root by a leaf-bearing root
\* that holds reinserted orphans, in a map whose root an insert had split
C26_Witness ==
    /\ last.op \in {"remove", "retain"}
    /\ has_leaves(root)
    /\ last.to_reinsert # <<>>
    /\ Len(last.removed) + Len(last.to_reinsert) > cfg.max

\* the checks of SeedSplit::split
SeedSplitChecks ==
    {"Empty children should not be split.", "pick_seed: unwrap on None",
     "attempt to subtract with overflow", "k must be less than l"}

ReturnedNone == last.op = "next" /\ ~last.out.some

\* C28: an iterator over the tree returns None after finitely many calls of
\* next(), having returned at most len leaves; when it does the stack of the
\* level cursor is empty and both cursors are finished; and every later
\* next() returns None and leaves the iterator as it is
C28_IteratorsTerminate ==
    /\ Iterating ~> ReturnedNone
    /\ [](last.op = "next" => last.yielded <= len)
    /\ [](ReturnedNone => /\ last.it.finished
                          /\ last.it.level_iter.finished
                          /\ last.it.level_iter.level_stack = <<>>)
    /\ [][(ReturnedNone /\ last'.op = "next")
              => (~last'.out.some /\ last'.it = last.it)]_vars

\* an iterator over a tree of height 3 has returned leaves from more than
\* one node, skipped others, and then returned None twice
C28_Witness ==
    /\ ReturnedNone
    /\ last.nones = MaxNoneCalls
    /\ Height(root) >= 3
    /\ last.yielded > cfg.max
    /\ last.yielded < len

\* the MBR covers the geometry g on every axis
Covers(mbr, g) ==
    \A d \in Axes : /\ mbr.x[d] <= min_for_axis(g, d)
                    /\ max_for_axis(g, d) <= mbr.y[d]

\* the MBR of n and of every node below n covers the MBRs of its child nodes
\* and the geometries of all the leaves stored below it
RECURSIVE CoversBelow(_)
CoversBelow(n) ==
    /\ \A k \in DOMAIN n.children : Covers(n.mbr, GeomOf(n.children[k]))
    /\ \A k \in DOMAIN Stored(n) : Covers(n.mbr, GeomOf(Stored(n)[k]))
    /\ has_levels(n) => \A k \in DOMAIN n.children : CoversBelow(n.children[k])

\* C29: after any sequence of operations every node's MBR covers its whole
\* subtree, the MBR of each child node and the geometry of every leaf stored
\* below it, also where the MBR is not tight
C29_MbrsCoverSubtrees == last.trap = "" => CoversBelow(root)

\* a tree with an interior root in which some MBR is not the tight bounding
\* box of the node's children
C29_Witness ==
    /\ last.trap = ""
    /\ has_levels(root) /\ len > 0
    /\ ~TightBelow(root)

\* the leaves stored at or below n that the query accepts and that lie under
\* nodes the query accepts, n included
RECURSIVE AcceptedBelow(_, _)
AcceptedBelow(query, n) ==
    IF ~accept_level(query, n) THEN <<>>
    ELSE IF has_leaves(n) THEN SelectSeq(n.children, LAMBDA c : accept_leaf(query, c))
    ELSE StoredBelow([k \in DOMAIN n.children |->
                         Leaves(n.children[k].mbr,
                                AcceptedBelow(query, n.children[k]))])

\* the items of the leaves
ItemsOf(leaves) == [i \in DOMAIN leaves |-> leaves[i].item]

\* C30: during a retain(q, f) the predicate f is called exactly once for
\* each stored leaf that q accepts and that lies under nodes q accepts, and
\* for no other leaf; a leaf reinserted as an orphan is not passed to f again
C30_PredicateCalledOncePerAccepted ==
    [][last'.op = "retain" =>
           SeqToBag(last'.calls)
               = SeqToBag(ItemsOf(AcceptedBelow(last'.query, root)))]_vars

\* a retain that called f for some of the stored leaves but not all, removed
\* some, and reinserted an orphan that f had been called for
C30_Witness ==
    /\ last.op = "retain" /\ last.trap = ""
    /\ last.removed # <<>>
    /\ Len(last.calls) < len + Len(last.removed)
    /\ \E i \in DOMAIN last.to_reinsert, j \in DOMAIN last.calls :
           last.to_reinsert[i].item = last.calls[j]
    /\ \A i, j \in DOMAIN last.calls : last.calls[i] = last.calls[j] => i = j

\* every public operation so far has returned
NoPanic == last.trap = ""

====
